---- MODULE Spec2Model ----
(***************************************************************************)
(* Model of the Rust VCF parser (rust-vcf-parser): the batch parser        *)
(* VcfParser::parse, its header and record parsers, the value inferencers  *)
(* and the genotype codec.                                                 *)
(*                                                                         *)
(* Text is a TLA+ string; a list (Vec) is a tuple.  Option<T> is a record  *)
(* [some |-> BOOLEAN, v |-> T].                                            *)
(***************************************************************************)
EXTENDS Integers, Sequences, FiniteSets, TLC

VARIABLES
    \* VcfParser fields (parser.rs 12-30)
    parse_info, parse_samples, skip_invalid, collect_warnings,
    warnings, current_line,
    \* locals of VcfParser::parse (parser.rs 74-111)
    pc,         \* position of the call: "idle", "header", "records", "done"
    consumed,   \* the line results the `lines` iterator has handed out so far
    eof,        \* the `lines` iterator has returned None
    header,     \* the VcfHeader being built / built
    records,    \* the `records` vector
    result,     \* what the call returned
    raised,     \* history: every error value built during the call, in order
    stale,      \* history: the call began with warnings of an earlier call in the buffer
    \* VcfIterator (parser.rs 464-516)
    mode,       \* which entry point runs: "parse" (batch), "iter" (VcfIterator), "none"
    it_line,    \* VcfIterator.current_line
    yielded,    \* the items next() has returned so far, in order
    \* application of one pure function to one input
    fn, arg, out

vars == <<parse_info, parse_samples, skip_invalid, collect_warnings,
          warnings, current_line, pc, consumed, eof, header, records, result,
          raised, stale, mode, it_line, yielded, fn, arg, out>>

parserVars == <<parse_info, parse_samples, skip_invalid, collect_warnings,
                warnings, current_line, pc, consumed, eof, header, records,
                result, raised, stale, mode, it_line, yielded>>

fnVars == <<fn, arg, out>>

-----------------------------------------------------------------------------
(* Text helpers: what the str methods used by the parser compute.          *)

TAB == "\t"

None == [some |-> FALSE, v |-> 0]

Some(x) == [some |-> TRUE, v |-> x]

Ch(s, i) == SubSeq(s, i, i)

StartsWith(s, p) == Len(s) >= Len(p) /\ SubSeq(s, 1, Len(p)) = p

EndsWith(s, p) == Len(s) >= Len(p) /\ SubSeq(s, Len(s) - Len(p) + 1, Len(s)) = p

Contains(s, c) == \E i \in 1..Len(s) : Ch(s, i) = c

\* str::find(char): 1-based index of the first occurrence, 0 when absent
Find(s, c) ==
    IF Contains(s, c)
    THEN CHOOSE i \in 1..Len(s) :
            Ch(s, i) = c /\ \A j \in 1..(i - 1) : Ch(s, j) # c
    ELSE 0

RECURSIVE Split(_, _)
\* str::split(char): always at least one piece, empty pieces kept
Split(s, c) ==
    LET i == Find(s, c)
    IN  IF i = 0 THEN <<s>>
        ELSE <<SubSeq(s, 1, i - 1)>> \o Split(SubSeq(s, i + 1, Len(s)), c)

Digits == {"0", "1", "2", "3", "4", "5", "6", "7", "8", "9"}

DigitVal(c) ==
    CASE c = "0" -> 0 [] c = "1" -> 1 [] c = "2" -> 2 [] c = "3" -> 3
      [] c = "4" -> 4 [] c = "5" -> 5 [] c = "6" -> 6 [] c = "7" -> 7
      [] c = "8" -> 8 [] c = "9" -> 9

AllDigits(s) == \A i \in 1..Len(s) : Ch(s, i) \in Digits

RECURSIVE DecValue(_, _)
\* value of a digit string, accumulated left to right as from_str_radix does
DecValue(s, acc) ==
    IF s = "" THEN acc ELSE DecValue(Tail(s), acc * 10 + DigitVal(Head(s)))

\* <unsigned>::from_str: an optional '+', then one or more digits; a value
\* above `max` is an overflow error.  The tokens of this model have at most
\* a few digits, so the accumulator stays inside TLC's integers.
ParseUnsigned(s, max) ==
    LET d == IF Len(s) > 0 /\ Head(s) = "+" THEN Tail(s) ELSE s
    IN  IF d = "" \/ ~AllDigits(d) THEN None
        ELSE IF DecValue(d, 0) > max THEN None
        ELSE Some(DecValue(d, 0))

\* i64::from_str: an optional '+' or '-', then one or more digits
ParseI64(s) ==
    LET neg == Len(s) > 0 /\ Head(s) = "-"
        d   == IF Len(s) > 0 /\ Head(s) \in {"+", "-"} THEN Tail(s) ELSE s
    IN  IF d = "" \/ ~AllDigits(d) THEN None
        ELSE Some(IF neg THEN 0 - DecValue(d, 0) ELSE DecValue(d, 0))

ToLower(c) ==
    CASE c = "E" -> "e" [] c = "I" -> "i" [] c = "N" -> "n" [] c = "F" -> "f"
      [] c = "A" -> "a" [] c = "T" -> "t" [] c = "Y" -> "y" [] OTHER -> c

RECURSIVE Lowered(_)
Lowered(s) == IF s = "" THEN "" ELSE ToLower(Head(s)) \o Lowered(Tail(s))

RECURSIVE StripZeros(_, _)
\* a decimal (mantissa, exponent) pair without trailing zeros in the mantissa
StripZeros(m, e) ==
    IF m = 0 THEN <<0, 0>>
    ELSE IF m % 10 = 0 THEN StripZeros(m \div 10, e + 1)
    ELSE <<m, e>>

\* f64::from_str.  Grammar (core::num::dec2flt): Sign? ('inf' | 'infinity' |
\* 'nan' | Number), Number ::= (Digit+ | Digit+ '.' Digit* | Digit* '.' Digit+)
\* Exp?, Exp ::= 'e' Sign? Digit+, letters case-insensitive.  The value is kept
\* as an exact decimal [cls, neg, m, e] meaning (-1)^neg * m * 10^e.
ParseF64(s) ==
    LET neg  == Len(s) > 0 /\ Head(s) = "-"
        body == Lowered(IF Len(s) > 0 /\ Head(s) \in {"+", "-"} THEN Tail(s) ELSE s)
        ePos == Find(body, "e")
        mant == IF ePos = 0 THEN body ELSE SubSeq(body, 1, ePos - 1)
        expo == IF ePos = 0 THEN "" ELSE SubSeq(body, ePos + 1, Len(body))
        dot  == Find(mant, ".")
        ip   == IF dot = 0 THEN mant ELSE SubSeq(mant, 1, dot - 1)
        fp   == IF dot = 0 THEN "" ELSE SubSeq(mant, dot + 1, Len(mant))
        mantOk == AllDigits(ip) /\ AllDigits(fp) /\ Len(ip) + Len(fp) > 0
        expV == ParseI64(expo)
        expOk == ePos = 0 \/ expV.some
        pair == StripZeros(DecValue(ip \o fp, 0),
                           (IF ePos = 0 THEN 0 ELSE expV.v) - Len(fp))
    IN  IF body \in {"inf", "infinity"}
        THEN Some([cls |-> "inf", neg |-> neg, m |-> 0, e |-> 0])
        ELSE IF body = "nan"
        THEN Some([cls |-> "nan", neg |-> neg, m |-> 0, e |-> 0])
        ELSE IF mantOk /\ expOk
        THEN Some([cls |-> "num", neg |-> neg, m |-> pair[1], e |-> pair[2]])
        ELSE None

-----------------------------------------------------------------------------
(* Errors and warnings (error.rs).                                         *)

ErrorKinds ==
    {"Io", "InvalidFormat", "MissingHeader", "InvalidHeader", "InvalidRecord",
     "MissingField", "InvalidPosition", "InvalidQuality", "UnknownChromosome",
     "Parse", "Utf8", "Serialization"}

\* a VcfError value: its variant, and the payload the variant carries
\* (`line` is 0 and `text` empty for a variant without that payload)
VcfError(kind, line, text) == [kind |-> kind, line |-> line, text |-> text]

NoError == VcfError("none", 0, "")

invalid_record(line, message) == VcfError("InvalidRecord", line, message)

invalid_position(line, value) == VcfError("InvalidPosition", line, value)

invalid_quality(line, value) == VcfError("InvalidQuality", line, value)

MissingHeader == VcfError("MissingHeader", 0, "")

InvalidHeader(message) == VcfError("InvalidHeader", 0, message)

\* the std::io::Error a line source hands out, converted by `?` (#[from])
IoError == VcfError("Io", 0, "read failed")

\* a partition that forgets MissingField
is_recoverable_NoMissingField(e) ==
    e.kind \in {"InvalidRecord", "InvalidPosition", "InvalidQuality"}

is_recoverable(e) ==
    e.kind \in {"InvalidRecord", "InvalidPosition", "InvalidQuality", "MissingField"}

\* Display of a VcfError: the #[error("...")] format strings
to_string(e) ==
    CASE e.kind = "Io" -> "IO error: " \o e.text
      [] e.kind = "InvalidFormat" -> "Invalid VCF format: " \o e.text
      [] e.kind = "MissingHeader" -> "Missing required header"
      [] e.kind = "InvalidHeader" -> "Invalid header line: " \o e.text
      [] e.kind = "InvalidRecord" ->
            "Invalid record at line " \o ToString(e.line) \o ": " \o e.text
      [] e.kind = "MissingField" ->
            "Missing required field '" \o e.text \o "' at line " \o ToString(e.line)
      [] e.kind = "InvalidPosition" ->
            "Invalid position '" \o e.text \o "' at line " \o ToString(e.line)
      [] e.kind = "InvalidQuality" ->
            "Invalid quality score '" \o e.text \o "' at line " \o ToString(e.line)
      [] e.kind = "UnknownChromosome" -> "Unknown chromosome: " \o e.text
      [] e.kind = "Parse" -> "Parse error: " \o e.text
      [] e.kind = "Utf8" -> "UTF-8 encoding error: " \o e.text
      [] e.kind = "Serialization" -> "Serialization error: " \o e.text

ParseWarning(line, message, category) ==
    [line |-> line, message |-> message, category |-> category]

-----------------------------------------------------------------------------
(* Genotype codec (types.rs 205-245).                                      *)

U8Max == 255

NoGenotype == [some |-> FALSE, v |-> [alleles |-> <<>>, phased |-> FALSE]]

\* a sub-token decoder that keeps the low 8 bits of an index too large for u8
ParseAllele_Wraps(a) ==
    IF a = "." THEN None
    ELSE LET p == ParseUnsigned(a, 1000000)
         IN  IF p.some THEN Some(p.v % (U8Max + 1)) ELSE None

\* one sub-token of a genotype: "." is a missing allele, anything else goes
\* through u8::from_str and a failure becomes a missing allele (.ok())
ParseAllele(a) == IF a = "." THEN None ELSE ParseUnsigned(a, U8Max)

\* a codec that always splits on '/'
GenotypeParse_SlashOnly(s) ==
    IF s = "." \/ s = "./." \/ s = ".|." THEN NoGenotype
    ELSE LET phased == Contains(s, "|")
             parts  == Split(s, "/")
         IN  Some([alleles |-> [i \in 1..Len(parts) |-> ParseAllele(parts[i])],
                   phased  |-> phased])

GenotypeParse(s) ==
    IF s = "." \/ s = "./." \/ s = ".|." THEN NoGenotype
    ELSE LET phased    == Contains(s, "|")
             separator == IF phased THEN "|" ELSE "/"
             parts     == Split(s, separator)
         IN  Some([alleles |-> [i \in 1..Len(parts) |-> ParseAllele(parts[i])],
                   phased  |-> phased])

\* filter_map(|a| *a): the indices of the alleles that are present, in order
NonMissing(alleles) ==
    LET present == SelectSeq(alleles, LAMBDA a : a.some)
    IN  [k \in 1..Len(present) |-> present[k].v]

\* Genotype::is_hom_ref
is_hom_ref(g) == \A k \in 1..Len(g.alleles) : g.alleles[k] = Some(0)

\* a query that counts a missing allele as an allele of its own
is_het_CountsMissing(g) ==
    Len(g.alleles) >= 2 /\ \E k \in 1..Len(g.alleles) : g.alleles[k] # g.alleles[1]

\* Genotype::is_het
is_het(g) ==
    LET non_missing == NonMissing(g.alleles)
    IN  Len(non_missing) >= 2
        /\ \E k \in 1..Len(non_missing) : non_missing[k] # non_missing[1]

\* Genotype::is_hom_alt
is_hom_alt(g) ==
    LET non_missing == NonMissing(g.alleles)
    IN  non_missing # <<>>
        /\ \A k \in 1..Len(non_missing) :
                non_missing[k] > 0 /\ non_missing[k] = non_missing[1]

-----------------------------------------------------------------------------
(* INFO value inference and FILTER classification (parser.rs 354-422).     *)

ZeroFloat == [cls |-> "num", neg |-> FALSE, m |-> 0, e |-> 0]

\* an InfoValue: the variant tag and, in the field of its type, the payload
InfoValue(tag) ==
    [tag |-> tag, int |-> 0, float |-> ZeroFloat, str |-> "",
     ints |-> <<>>, floats |-> <<>>, strs |-> <<>>]

AllSome(opts) == \A i \in 1..Len(opts) : opts[i].some

Values(opts) == [i \in 1..Len(opts) |-> opts[i].v]

\* an inference that tries float before integer
parse_info_value_FloatFirst(value) ==
    IF Contains(value, ",")
    THEN LET parts  == Split(value, ",")
             ints   == [i \in 1..Len(parts) |-> ParseI64(parts[i])]
             floats == [i \in 1..Len(parts) |-> ParseF64(parts[i])]
         IN  IF AllSome(floats)
             THEN [InfoValue("FloatArray") EXCEPT !.floats = Values(floats)]
             ELSE IF AllSome(ints)
             THEN [InfoValue("IntegerArray") EXCEPT !.ints = Values(ints)]
             ELSE [InfoValue("StringArray") EXCEPT !.strs = parts]
    ELSE IF ParseF64(value).some
    THEN [InfoValue("Float") EXCEPT !.float = ParseF64(value).v]
    ELSE IF ParseI64(value).some
    THEN [InfoValue("Integer") EXCEPT !.int = ParseI64(value).v]
    ELSE [InfoValue("String") EXCEPT !.str = value]

parse_info_value(value) ==
    IF Contains(value, ",")
    THEN LET parts  == Split(value, ",")
             ints   == [i \in 1..Len(parts) |-> ParseI64(parts[i])]
             floats == [i \in 1..Len(parts) |-> ParseF64(parts[i])]
         IN  IF AllSome(ints)
             THEN [InfoValue("IntegerArray") EXCEPT !.ints = Values(ints)]
             ELSE IF AllSome(floats)
             THEN [InfoValue("FloatArray") EXCEPT !.floats = Values(floats)]
             ELSE [InfoValue("StringArray") EXCEPT !.strs = parts]
    ELSE IF ParseI64(value).some
    THEN [InfoValue("Integer") EXCEPT !.int = ParseI64(value).v]
    ELSE IF ParseF64(value).some
    THEN [InfoValue("Float") EXCEPT !.float = ParseF64(value).v]
    ELSE [InfoValue("String") EXCEPT !.str = value]

\* a HashMap: a function from the set of its keys
EmptyMap == [k \in {} |-> 0]

Insert(map, key, val) ==
    [k \in (DOMAIN map) \cup {key} |-> IF k = key THEN val ELSE map[k]]

\* one item of the INFO column, inserted into the map built so far
InfoItem(info, item) ==
    LET eq_pos == Find(item, "=")
    IN  IF eq_pos # 0
        THEN Insert(info, SubSeq(item, 1, eq_pos - 1),
                    parse_info_value(SubSeq(item, eq_pos + 1, Len(item))))
        ELSE Insert(info, item, InfoValue("Flag"))

RECURSIVE InfoFold(_, _)
InfoFold(info, items) ==
    IF items = <<>> THEN info
    ELSE InfoFold(InfoItem(info, Head(items)), Tail(items))

parse_info_field(value) ==
    IF value = "." THEN EmptyMap ELSE InfoFold(EmptyMap, Split(value, ";"))

\* a FILTER column whose names are separated by commas
parse_filter_SplitsOnComma(value) ==
    CASE value = "."    -> [status |-> "Missing", names |-> <<>>]
      [] value = "PASS" -> [status |-> "Pass", names |-> <<>>]
      [] OTHER          -> [status |-> "Failed", names |-> Split(value, ",")]

\* a FilterStatus: the variant and, for Failed, the list of filter names
parse_filter(value) ==
    CASE value = "."    -> [status |-> "Missing", names |-> <<>>]
      [] value = "PASS" -> [status |-> "Pass", names |-> <<>>]
      [] OTHER          -> [status |-> "Failed", names |-> Split(value, ";")]

-----------------------------------------------------------------------------
(* Sample columns (parser.rs 425-460).                                     *)

\* the pairs (j, key) of one sample, applied in FORMAT order to `data`
RECURSIVE SampleFold(_, _, _, _)
SampleFold(data, format_keys, values, j) ==
    IF j > Len(format_keys) THEN data
    ELSE IF j > Len(values) THEN SampleFold(data, format_keys, values, j + 1)
    ELSE IF format_keys[j] = "GT"
    THEN SampleFold([data EXCEPT !.genotype = GenotypeParse(values[j])],
                    format_keys, values, j + 1)
    ELSE SampleFold([data EXCEPT !.fields = Insert(@, format_keys[j], values[j])],
                    format_keys, values, j + 1)

\* sample columns whose fallback names count from 1
ParseSamples_NamesFromOne(fields, sample_names) ==
    IF fields = <<>> THEN <<>>
    ELSE LET format_keys == Split(fields[1], ":")
         IN  [k \in 1..(Len(fields) - 1) |->
                LET name == IF k <= Len(sample_names) THEN sample_names[k]
                            ELSE "SAMPLE_" \o ToString(k)
                IN  SampleFold([name |-> name, genotype |-> NoGenotype,
                                fields |-> EmptyMap],
                               format_keys, Split(fields[k + 1], ":"), 1)]

\* `fields` are the columns from FORMAT on; i is 0-based as in enumerate()
\* (the method parse_samples; the field of that name is the variable)
ParseSamples(fields, sample_names) ==
    IF fields = <<>> THEN <<>>
    ELSE LET format_keys == Split(fields[1], ":")
         IN  [k \in 1..(Len(fields) - 1) |->
                LET i    == k - 1
                    name == IF k <= Len(sample_names) THEN sample_names[k]
                            ELSE "SAMPLE_" \o ToString(i)
                IN  SampleFold([name |-> name, genotype |-> NoGenotype,
                                fields |-> EmptyMap],
                               format_keys, Split(fields[k + 1], ":"), 1)]

-----------------------------------------------------------------------------
(* Header parsing (types.rs 8-49, parser.rs 153-273).                      *)

NoString == [some |-> FALSE, v |-> ""]

DefaultHeader ==
    [file_format |-> "4.2", reference |-> NoString, contigs |-> <<>>,
     info_fields |-> <<>>, format_fields |-> <<>>, filters |-> <<>>,
     samples |-> <<>>, meta_lines |-> <<>>]

\* a loop that ends the pair at every comma, quoted or not
StructuredChar_CommaAlwaysSplits(st, ch) ==
    IF ch = "\""
    THEN [st EXCEPT !.in_quotes = ~st.in_quotes]
    ELSE IF ch = "=" /\ ~st.in_quotes
    THEN [st EXCEPT !.in_value = TRUE]
    ELSE IF ch = ","
    THEN [st EXCEPT !.fields = IF st.current_key # ""
                               THEN Insert(@, st.current_key, st.current_value)
                               ELSE @,
                    !.current_key = "", !.current_value = "", !.in_value = FALSE]
    ELSE IF st.in_value
    THEN [st EXCEPT !.current_value = @ \o ch]
    ELSE [st EXCEPT !.current_key = @ \o ch]

\* the loop state of parse_structured_field after one more character
StructuredChar(st, ch) ==
    IF ch = "\""
    THEN [st EXCEPT !.in_quotes = ~st.in_quotes]
    ELSE IF ch = "=" /\ ~st.in_quotes
    THEN [st EXCEPT !.in_value = TRUE]
    ELSE IF ch = "," /\ ~st.in_quotes
    THEN [st EXCEPT !.fields = IF st.current_key # ""
                               THEN Insert(@, st.current_key, st.current_value)
                               ELSE @,
                    !.current_key = "", !.current_value = "", !.in_value = FALSE]
    ELSE IF st.in_value
    THEN [st EXCEPT !.current_value = @ \o ch]
    ELSE [st EXCEPT !.current_key = @ \o ch]

RECURSIVE StructuredFold(_, _)
StructuredFold(st, inner) ==
    IF inner = "" THEN st
    ELSE StructuredFold(StructuredChar(st, Head(inner)), Tail(inner))

\* Option<HashMap<String, String>>: None for a value not within '<' and '>'
parse_structured_field(value) ==
    IF ~StartsWith(value, "<") \/ ~EndsWith(value, ">")
    THEN [some |-> FALSE, v |-> EmptyMap]
    ELSE LET inner == SubSeq(value, 2, Len(value) - 1)
             st    == StructuredFold([fields |-> EmptyMap, current_key |-> "",
                                      current_value |-> "", in_quotes |-> FALSE,
                                      in_value |-> FALSE], inner)
         IN  [some |-> TRUE,
              v |-> IF st.current_key # ""
                    THEN Insert(st.fields, st.current_key, st.current_value)
                    ELSE st.fields]

\* map.get(key).cloned().unwrap_or_default()
GetOrDefault(map, key) == IF key \in DOMAIN map THEN map[key] ELSE ""

\* u64::from_str; a token of up to 19 digits cannot overflow, and the tokens
\* of this model are far shorter
ParseU64(s) ==
    LET d == IF Len(s) > 0 /\ Head(s) = "+" THEN Tail(s) ELSE s
    IN  IF d = "" \/ ~AllDigits(d) THEN None ELSE Some(DecValue(d, 0))

\* a handler that keeps the value of every key=value line as the reference
parse_meta_line_AnyKeyIsReference(line, hdr) ==
    LET content == SubSeq(line, 3, Len(line))
        eq_pos  == Find(content, "=")
    IN  IF eq_pos = 0 THEN hdr
        ELSE [hdr EXCEPT !.reference = Some(SubSeq(content, eq_pos + 1, Len(content)))]

\* parse_meta_line never fails: it returns the header it leaves behind
parse_meta_line(line, hdr) ==
    LET content == SubSeq(line, 3, Len(line))
        eq_pos  == Find(content, "=")
        key     == SubSeq(content, 1, eq_pos - 1)
        value   == SubSeq(content, eq_pos + 1, Len(content))
        sf      == parse_structured_field(value)
        def     == [id |-> GetOrDefault(sf.v, "ID"),
                    number |-> GetOrDefault(sf.v, "Number"),
                    field_type |-> GetOrDefault(sf.v, "Type"),
                    description |-> GetOrDefault(sf.v, "Description")]
    IN  IF eq_pos = 0 THEN hdr
        ELSE CASE key = "fileformat" -> [hdr EXCEPT !.file_format = value]
               [] key = "reference" -> [hdr EXCEPT !.reference = Some(value)]
               [] key = "contig" /\ sf.some ->
                    [hdr EXCEPT !.contigs = Append(@,
                        [id |-> GetOrDefault(sf.v, "ID"),
                         length |-> IF "length" \in DOMAIN sf.v
                                    THEN ParseU64(sf.v["length"]) ELSE None])]
               [] key = "INFO" /\ sf.some ->
                    [hdr EXCEPT !.info_fields = Append(@, def)]
               [] key = "FORMAT" /\ sf.some ->
                    [hdr EXCEPT !.format_fields = Append(@, def)]
               [] key = "FILTER" /\ sf.some ->
                    [hdr EXCEPT !.filters = Append(@,
                        [id |-> def.id, description |-> def.description])]
               [] OTHER -> hdr

MinColumns == 8

FormatColumn == 9

\* a '#CHROM' row whose samples start at the FORMAT column
parse_header_line_FromFormat(line, hdr) ==
    LET fields == Split(line, TAB)
    IN  IF Len(fields) < MinColumns
        THEN [ok |-> FALSE, header |-> hdr,
              err |-> InvalidHeader("Header line must have at least 8 columns")]
        ELSE [ok |-> TRUE, err |-> NoError,
              header |-> IF Len(fields) > MinColumns
                         THEN [hdr EXCEPT !.samples =
                                  SubSeq(fields, FormatColumn, Len(fields))]
                         ELSE hdr]

\* the '#CHROM' row: [ok, header, err]
parse_header_line(line, hdr) ==
    LET fields == Split(line, TAB)
    IN  IF Len(fields) < MinColumns
        THEN [ok |-> FALSE, header |-> hdr,
              err |-> InvalidHeader("Header line must have at least 8 columns")]
        ELSE [ok |-> TRUE, err |-> NoError,
              header |-> IF Len(fields) > FormatColumn
                         THEN [hdr EXCEPT !.samples =
                                  SubSeq(fields, FormatColumn + 1, Len(fields))]
                         ELSE hdr]

-----------------------------------------------------------------------------
(* Record parsing (parser.rs 276-352).                                     *)

RECURSIVE TabFields(_, _)
\* the memchr loop: `start` is the 0-based offset of the field being cut
TabFields(line, start) ==
    LET pos == Find(SubSeq(line, start + 1, Len(line)), TAB)
    IN  IF pos = 0 THEN <<SubSeq(line, start + 1, Len(line))>>
        ELSE <<SubSeq(line, start + 1, start + pos - 1)>>
                \o TabFields(line, start + pos)

NoFloat == [some |-> FALSE, v |-> ZeroFloat]

DefaultRecord ==
    [chrom |-> "", pos |-> 0, id |-> NoString, reference |-> "",
     alternate |-> <<>>, qual |-> NoFloat,
     filter |-> [status |-> "Missing", names |-> <<>>],
     info |-> EmptyMap, samples |-> <<>>]

\* a QUAL column that falls back to 0.0 when it does not parse
ParseQual_DefaultsToZero(self, field) ==
    IF field = "." THEN [qual |-> NoFloat, raised |-> <<>>]
    ELSE IF ParseF64(field).some
    THEN [qual |-> ParseF64(field), raised |-> <<>>]
    ELSE [qual |-> Some(ZeroFloat),
          raised |-> <<invalid_quality(self.current_line, field)>>]

\* QUAL: the InvalidQuality error is built by map_err and dropped by ok()
ParseQual(self, field) ==
    IF field = "." THEN [qual |-> NoFloat, raised |-> <<>>]
    ELSE IF ParseF64(field).some
    THEN [qual |-> ParseF64(field), raised |-> <<>>]
    ELSE [qual |-> NoFloat,
          raised |-> <<invalid_quality(self.current_line, field)>>]

\* a record parser that fills the INFO map whatever parse_info says
parse_record_InfoAlways(self, line, hdr) ==
    LET fields == TabFields(line, 0)
    IN  IF Len(fields) < MinColumns
        THEN LET e == invalid_record(self.current_line,
                        "Expected at least 8 fields, found " \o ToString(Len(fields)))
             IN  [ok |-> FALSE, rec |-> DefaultRecord, err |-> e, raised |-> <<e>>]
        ELSE IF ~ParseU64(fields[2]).some
        THEN LET e == invalid_position(self.current_line, fields[2])
             IN  [ok |-> FALSE, rec |-> DefaultRecord, err |-> e, raised |-> <<e>>]
        ELSE LET q == ParseQual(self, fields[6])
             IN  [ok |-> TRUE, err |-> NoError, raised |-> q.raised,
                  rec |->
                    [chrom |-> fields[1],
                     pos |-> ParseU64(fields[2]).v,
                     id |-> IF fields[3] = "." THEN NoString ELSE Some(fields[3]),
                     reference |-> fields[4],
                     alternate |-> IF fields[5] = "." THEN <<>>
                                   ELSE Split(fields[5], ","),
                     qual |-> q.qual,
                     filter |-> parse_filter(fields[7]),
                     info |-> parse_info_field(fields[8]),
                     samples |-> IF self.parse_samples /\ Len(fields) > FormatColumn
                                 THEN ParseSamples(SubSeq(fields, FormatColumn, Len(fields)),
                                                   hdr.samples)
                                 ELSE <<>>]]

\* parse_record(&self, line, header): `self` gives parse_info, parse_samples
\* and current_line.  The value is [ok, rec, err, raised]: the Result, and
\* every error value built on the way, returned or not.
parse_record(self, line, hdr) ==
    LET fields == TabFields(line, 0)
    IN  IF Len(fields) < MinColumns
        THEN LET e == invalid_record(self.current_line,
                        "Expected at least 8 fields, found " \o ToString(Len(fields)))
             IN  [ok |-> FALSE, rec |-> DefaultRecord, err |-> e, raised |-> <<e>>]
        ELSE IF ~ParseU64(fields[2]).some
        THEN LET e == invalid_position(self.current_line, fields[2])
             IN  [ok |-> FALSE, rec |-> DefaultRecord, err |-> e, raised |-> <<e>>]
        ELSE LET q == ParseQual(self, fields[6])
             IN  [ok |-> TRUE, err |-> NoError, raised |-> q.raised,
                  rec |->
                    [chrom |-> fields[1],
                     pos |-> ParseU64(fields[2]).v,
                     id |-> IF fields[3] = "." THEN NoString ELSE Some(fields[3]),
                     reference |-> fields[4],
                     alternate |-> IF fields[5] = "." THEN <<>>
                                   ELSE Split(fields[5], ","),
                     qual |-> q.qual,
                     filter |-> parse_filter(fields[7]),
                     info |-> IF self.parse_info THEN parse_info_field(fields[8])
                              ELSE EmptyMap,
                     samples |-> IF self.parse_samples /\ Len(fields) > FormatColumn
                                 THEN ParseSamples(SubSeq(fields, FormatColumn, Len(fields)),
                                                   hdr.samples)
                                 ELSE <<>>]]

-----------------------------------------------------------------------------
(* Derived queries of a record (types.rs 130-159).                         *)

is_snp(rec) ==
    Len(rec.reference) = 1
    /\ \A k \in 1..Len(rec.alternate) :
            Len(rec.alternate[k]) = 1 /\ rec.alternate[k] # "*"

is_insertion(rec) ==
    \E k \in 1..Len(rec.alternate) : Len(rec.alternate[k]) > Len(rec.reference)

is_deletion(rec) ==
    \E k \in 1..Len(rec.alternate) : Len(rec.alternate[k]) < Len(rec.reference)

\* a classification that asks for an insertion before it asks for both
variant_type_InsertionFirst(rec) ==
    IF is_snp(rec) THEN "Snp"
    ELSE IF is_insertion(rec) THEN "Insertion"
    ELSE IF is_insertion(rec) /\ is_deletion(rec) THEN "Complex"
    ELSE IF is_deletion(rec) THEN "Deletion"
    ELSE "Other"

variant_type(rec) ==
    IF is_snp(rec) THEN "Snp"
    ELSE IF is_insertion(rec) /\ is_deletion(rec) THEN "Complex"
    ELSE IF is_insertion(rec) THEN "Insertion"
    ELSE IF is_deletion(rec) THEN "Deletion"
    ELSE "Other"

-----------------------------------------------------------------------------
(* Statistics (types.rs 259-296, parser.rs 518-553).                       *)

\* VcfStats::new(): every counter 0, no chromosome
VcfStatsNew ==
    [total_records |-> 0, snps |-> 0, insertions |-> 0, deletions |-> 0,
     complex |-> 0, passed_filter |-> 0, failed_filter |-> 0, chromosomes |-> <<>>]

\* the match on record.variant_type() in update
ClassCounted(stats, class) ==
    CASE class = "Snp" -> [stats EXCEPT !.snps = @ + 1]
      [] class = "Insertion" -> [stats EXCEPT !.insertions = @ + 1]
      [] class = "Deletion" -> [stats EXCEPT !.deletions = @ + 1]
      [] class = "Complex" -> [stats EXCEPT !.complex = @ + 1]
      [] OTHER -> stats

\* a filter count that takes a Missing filter for a failed one
FilterCounted_MissingFails(stats, filter) ==
    IF filter.status = "Pass" THEN [stats EXCEPT !.passed_filter = @ + 1]
    ELSE [stats EXCEPT !.failed_filter = @ + 1]

\* the match on &record.filter in update
FilterCounted(stats, filter) ==
    CASE filter.status = "Pass" -> [stats EXCEPT !.passed_filter = @ + 1]
      [] filter.status = "Failed" -> [stats EXCEPT !.failed_filter = @ + 1]
      [] OTHER -> stats

\* a chromosome list that takes every name
ChromSeen_Always(chromosomes, chrom) == Append(chromosomes, chrom)

\* if !chromosomes.contains(&chrom) { chromosomes.push(chrom) }
ChromSeen(chromosomes, chrom) ==
    IF \E k \in 1..Len(chromosomes) : chromosomes[k] = chrom
    THEN chromosomes
    ELSE Append(chromosomes, chrom)

\* VcfStats::update
update(stats, record) ==
    LET counted == FilterCounted(
                       ClassCounted([stats EXCEPT !.total_records = @ + 1],
                                    variant_type(record)),
                       record.filter)
    IN  [counted EXCEPT !.chromosomes = ChromSeen(@, record.chrom)]

RECURSIVE FoldUpdate(_, _)
\* for record in records { stats.update(record) }
FoldUpdate(stats, recs) ==
    IF recs = <<>> THEN stats ELSE FoldUpdate(update(stats, Head(recs)), Tail(recs))

calculate_stats(recs) == FoldUpdate(VcfStatsNew, recs)

RECURSIVE MergeChromosomes(_, _)
\* for chrom in b.chromosomes { if !a.chromosomes.contains(&chrom) { push } }
MergeChromosomes(a, b) ==
    IF b = <<>> THEN a ELSE MergeChromosomes(ChromSeen(a, Head(b)), Tail(b))

\* a reduce step that appends the right-hand chromosome list as it is
Merge_AppendAll(a, b) ==
    [total_records |-> a.total_records + b.total_records,
     snps |-> a.snps + b.snps,
     insertions |-> a.insertions + b.insertions,
     deletions |-> a.deletions + b.deletions,
     complex |-> a.complex + b.complex,
     passed_filter |-> a.passed_filter + b.passed_filter,
     failed_filter |-> a.failed_filter + b.failed_filter,
     chromosomes |-> a.chromosomes \o b.chromosomes]

\* the reduce closure of calculate_stats_parallel
Merge(a, b) ==
    [total_records |-> a.total_records + b.total_records,
     snps |-> a.snps + b.snps,
     insertions |-> a.insertions + b.insertions,
     deletions |-> a.deletions + b.deletions,
     complex |-> a.complex + b.complex,
     passed_filter |-> a.passed_filter + b.passed_filter,
     failed_filter |-> a.failed_filter + b.failed_filter,
     chromosomes |-> MergeChromosomes(a.chromosomes, b.chromosomes)]

-----------------------------------------------------------------------------
(* The batch parser VcfParser::parse (parser.rs 74-150) as a state machine: *)
(* one step per line pulled from the line source.                           *)

MaxLines == 4

\* `out` before and after the function under study has been applied
NotApplied == [applied |-> FALSE, v |-> 0]

Applied(v) == [applied |-> TRUE, v |-> v]

\* what the line source hands out: Ok(text) or Err(io error)
OkLine(text) == [io |-> FALSE, text |-> text]

ErrLine == [io |-> TRUE, text |-> ""]

ChromRow == "#CHROM\tPOS\tID\tREF\tALT\tQUAL\tFILTER\tINFO"

\* the lines a source offers while the header is being read
HeaderPool ==
    { OkLine("##fileformat=VCFv4.2"),
      OkLine("##assembly"),
      OkLine(""),
      OkLine(ChromRow),
      OkLine(ChromRow \o "\tFORMAT\tS1\tS2"),
      OkLine("#CHROM\tPOS\tID"),
      OkLine("1\t100\trs1\tA\tG\t30\tPASS\tDP=50"),
      ErrLine }

\* the lines a source offers after the '#CHROM' row
DataPool ==
    { OkLine("1\t100\trs1\tA\tG\t30\tPASS\tDP=50"),
      OkLine("1\t200\t.\tAT\tA\t.\tq10\tDB\tGT:DP\t0/1:25\t1|1"),
      OkLine("2\t400\t.\tC\tT\thigh\t.\t."),
      OkLine("##assembly"),
      OkLine(ChromRow),
      OkLine(""),
      ErrLine }

\* VcfParser::new(), VcfParser::fast(), and any setting of the pub fields
Configs ==
    [parse_info : BOOLEAN, parse_samples : BOOLEAN,
     skip_invalid : BOOLEAN, collect_warnings : BOOLEAN]

\* VcfParser::new() (parser.rs 40-49), the parser a VcfIterator owns
NewConfig ==
    [parse_info |-> TRUE, parse_samples |-> TRUE,
     skip_invalid |-> FALSE, collect_warnings |-> TRUE]

NoResult ==
    [status |-> "none", err |-> NoError, header |-> DefaultHeader, records |-> <<>>]

OkResult(hdr, recs) ==
    [status |-> "Ok", err |-> NoError, header |-> hdr, records |-> recs]

ErrResult(e) ==
    [status |-> "Err", err |-> e, header |-> DefaultHeader, records |-> <<>>]

\* a header loop that takes a blank line for a data line
HeaderStep_BlankFails(hdr, line) ==
    IF StartsWith(line, "##")
    THEN [next |-> "header", err |-> NoError,
          header |-> parse_meta_line(line, [hdr EXCEPT !.meta_lines = Append(@, line)])]
    ELSE IF StartsWith(line, "#CHROM")
    THEN LET r == parse_header_line(line, hdr)
         IN  IF r.ok THEN [next |-> "records", err |-> NoError, header |-> r.header]
             ELSE [next |-> "return", err |-> r.err, header |-> hdr]
    ELSE [next |-> "return", err |-> MissingHeader, header |-> hdr]

\* body of the loop of parse_header for one line: where the call goes next
\* ("header": next line, "records": header complete, "return": Err(err))
HeaderStep(hdr, line) ==
    IF StartsWith(line, "##")
    THEN [next |-> "header", err |-> NoError,
          header |-> parse_meta_line(line, [hdr EXCEPT !.meta_lines = Append(@, line)])]
    ELSE IF StartsWith(line, "#CHROM")
    THEN LET r == parse_header_line(line, hdr)
         IN  IF r.ok THEN [next |-> "records", err |-> NoError, header |-> r.header]
             ELSE [next |-> "return", err |-> r.err, header |-> hdr]
    ELSE IF line # ""
    THEN [next |-> "return", err |-> MissingHeader, header |-> hdr]
    ELSE [next |-> "header", err |-> NoError, header |-> hdr]

RECURSIVE HeaderLoop(_, _, _)
\* the loop of parse_header from line k of `lines` on (parser.rs 126-143),
\* and what follows it when the lines run out (parser.rs 145-149)
HeaderLoop(hdr, lines, k) ==
    IF k > Len(lines)
    THEN [ok |-> FALSE, err |-> MissingHeader, header |-> DefaultHeader]
    ELSE LET s == HeaderStep(hdr, lines[k])
         IN  IF s.next = "header" THEN HeaderLoop(s.header, lines, k + 1)
             ELSE IF s.next = "records"
             THEN [ok |-> TRUE, err |-> NoError, header |-> s.header]
             ELSE [ok |-> FALSE, err |-> s.err, header |-> DefaultHeader]

\* parse_header over a source that hands out `lines` and never fails:
\* Ok(header) or Err(err)
parse_header(lines) == HeaderLoop(DefaultHeader, lines, 1)

\* a guard that skips every recoverable error, whatever skip_invalid says
Skipped_IgnoreFlag(skip, e) == is_recoverable(e)

\* the guard of the second match arm of parse (parser.rs 97)
Skipped(skip, e) == skip /\ is_recoverable(e)

\* the line counter after one more line (parser.rs 88, 127, 503)
NextLine(n) == n + 1

\* a warning buffer that numbers lines from 0
WarningsAfter_ZeroBased(ws, collect, line, e) ==
    IF collect THEN Append(ws, ParseWarning(line - 1, to_string(e), "Other")) ELSE ws

\* the warning buffer after a record was skipped for error e (parser.rs 98-104)
WarningsAfter(ws, collect, line, e) ==
    IF collect THEN Append(ws, ParseWarning(line, to_string(e), "Other")) ELSE ws

\* the parser as parse_record sees it when its line counter is `line`
SelfAt(line) ==
    [parse_info |-> parse_info, parse_samples |-> parse_samples, current_line |-> line]

\* an item of the iterator: the VcfResult<VcfRecord> next() returns
Item(ok, rec, err) == [ok |-> ok, rec |-> rec, err |-> err]

\* an iterator that yields nothing more once it has yielded an error
YieldedAfter_FusedOnError(ys, r) ==
    IF ys # <<>> /\ ~ys[Len(ys)].ok THEN ys
    ELSE Append(ys, Item(r.ok, r.rec, r.err))

\* the items yielded so far, after next() returns the outcome r of
\* parse_record (parser.rs 509)
YieldedAfter(ys, r) == Append(ys, Item(r.ok, r.rec, r.err))

configVars == <<parse_info, parse_samples, skip_invalid, collect_warnings>>

iterVars == <<it_line, yielded>>

Init ==
    /\ \/ /\ mode = "parse"
          /\ \E c \in Configs :
                /\ parse_info = c.parse_info
                /\ parse_samples = c.parse_samples
                /\ skip_invalid = c.skip_invalid
                /\ collect_warnings = c.collect_warnings
       \/ /\ mode = "iter"
          /\ parse_info = NewConfig.parse_info
          /\ parse_samples = NewConfig.parse_samples
          /\ skip_invalid = NewConfig.skip_invalid
          /\ collect_warnings = NewConfig.collect_warnings
    /\ warnings = <<>>
    /\ current_line = 0
    /\ pc = "idle"
    /\ consumed = <<>>
    /\ eof = FALSE
    /\ header = DefaultHeader
    /\ records = <<>>
    /\ result = NoResult
    /\ raised = <<>>
    /\ stale = FALSE
    /\ it_line = 0
    /\ yielded = <<>>
    /\ fn = "none"
    /\ arg = ""
    /\ out = NotApplied

\* a parse that starts without clearing the warning buffer
Parse_KeepsWarnings ==
    /\ mode = "parse"
    /\ pc \in {"idle", "done"}
    /\ current_line' = 0
    /\ pc' = "header"
    /\ consumed' = <<>>
    /\ eof' = FALSE
    /\ header' = DefaultHeader
    /\ records' = <<>>
    /\ result' = NoResult
    /\ raised' = <<>>
    /\ stale' = (warnings # <<>>)
    /\ UNCHANGED <<configVars, warnings, mode, iterVars, fnVars>>

\* parse is called (again): parser.rs 75-79
Parse ==
    /\ mode = "parse"
    /\ pc \in {"idle", "done"}
    /\ current_line' = 0
    /\ warnings' = <<>>
    /\ pc' = "header"
    /\ consumed' = <<>>
    /\ eof' = FALSE
    /\ header' = DefaultHeader
    /\ records' = <<>>
    /\ result' = NoResult
    /\ raised' = <<>>
    /\ stale' = (warnings # <<>>)
    /\ UNCHANGED <<configVars, mode, iterVars, fnVars>>

\* VcfIterator::new is called: a fresh parser, then parse_header (parser.rs 473-479)
IterNew ==
    /\ mode = "iter"
    /\ pc = "idle"
    /\ pc' = "header"
    /\ UNCHANGED <<configVars, warnings, current_line, consumed, eof, header,
                   records, result, raised, mode, iterVars, fnVars, stale>>

\* parse_header pulls one line (parser.rs 126-143); when it returns Ok, parse
\* goes on to its record loop and VcfIterator::new builds the iterator
\* (parser.rs 480-487)
HeaderLine(lr) ==
    /\ pc = "header"
    /\ Len(consumed) < MaxLines
    /\ consumed' = Append(consumed, lr)
    /\ current_line' = NextLine(current_line)
    /\ IF lr.io
       THEN /\ pc' = "done"
            /\ result' = ErrResult(IoError)
            /\ raised' = Append(raised, IoError)
            /\ UNCHANGED <<header, it_line>>
       ELSE LET s == HeaderStep(header, lr.text)
            IN  /\ header' = s.header
                /\ IF s.next = "return"
                   THEN /\ pc' = "done"
                        /\ result' = ErrResult(s.err)
                        /\ raised' = Append(raised, s.err)
                        /\ UNCHANGED it_line
                   ELSE IF s.next = "records" /\ mode = "iter"
                   THEN /\ pc' = "iter"
                        /\ it_line' = NextLine(current_line)
                        /\ UNCHANGED <<result, raised>>
                   ELSE /\ pc' = s.next
                        /\ UNCHANGED <<result, raised, it_line>>
    /\ UNCHANGED <<configVars, warnings, records, mode, yielded, eof, fnVars, stale>>

\* the line source ends before the '#CHROM' row (parser.rs 145-147)
HeaderEnd ==
    /\ pc = "header"
    /\ eof' = TRUE
    /\ pc' = "done"
    /\ result' = ErrResult(MissingHeader)
    /\ raised' = Append(raised, MissingHeader)
    /\ UNCHANGED <<configVars, warnings, current_line, consumed, header, records,
                   mode, iterVars, fnVars, stale>>

\* a record loop that still takes a '##' line for a metadata line
RecordLine_MetaStillHeader(lr) ==
    /\ pc = "records"
    /\ Len(consumed) < MaxLines
    /\ consumed' = Append(consumed, lr)
    /\ current_line' = NextLine(current_line)
    /\ IF lr.io
       THEN /\ pc' = "done"
            /\ result' = ErrResult(IoError)
            /\ raised' = Append(raised, IoError)
            /\ UNCHANGED <<records, warnings, header>>
       ELSE IF lr.text = ""
       THEN UNCHANGED <<pc, result, raised, records, warnings, header>>
       ELSE IF StartsWith(lr.text, "##")
       THEN /\ header' = HeaderStep(header, lr.text).header
            /\ UNCHANGED <<pc, result, raised, records, warnings>>
       ELSE LET r == parse_record(SelfAt(NextLine(current_line)), lr.text, header)
            IN  /\ raised' = raised \o r.raised
                /\ UNCHANGED header
                /\ IF r.ok
                   THEN /\ records' = Append(records, r.rec)
                        /\ UNCHANGED <<pc, result, warnings>>
                   ELSE IF Skipped(skip_invalid, r.err)
                   THEN /\ warnings' = WarningsAfter(warnings, collect_warnings,
                                                     NextLine(current_line), r.err)
                        /\ UNCHANGED <<pc, result, records>>
                   ELSE /\ pc' = "done"
                        /\ result' = ErrResult(r.err)
                        /\ UNCHANGED <<records, warnings>>
    /\ UNCHANGED <<configVars, mode, iterVars, eof, fnVars, stale>>

\* the record loop pulls one line (parser.rs 87-108)
RecordLine(lr) ==
    /\ pc = "records"
    /\ Len(consumed) < MaxLines
    /\ consumed' = Append(consumed, lr)
    /\ current_line' = NextLine(current_line)
    /\ IF lr.io
       THEN /\ pc' = "done"
            /\ result' = ErrResult(IoError)
            /\ raised' = Append(raised, IoError)
            /\ UNCHANGED <<records, warnings>>
       ELSE IF lr.text = ""
       THEN UNCHANGED <<pc, result, raised, records, warnings>>
       ELSE LET r == parse_record(SelfAt(NextLine(current_line)), lr.text, header)
            IN  /\ raised' = raised \o r.raised
                /\ IF r.ok
                   THEN /\ records' = Append(records, r.rec)
                        /\ UNCHANGED <<pc, result, warnings>>
                   ELSE IF Skipped(skip_invalid, r.err)
                   THEN /\ warnings' = WarningsAfter(warnings, collect_warnings,
                                                     NextLine(current_line), r.err)
                        /\ UNCHANGED <<pc, result, records>>
                   ELSE /\ pc' = "done"
                        /\ result' = ErrResult(r.err)
                        /\ UNCHANGED <<records, warnings>>
    /\ UNCHANGED <<configVars, header, mode, iterVars, eof, fnVars, stale>>

\* the line source ends: Ok((header, records)) (parser.rs 110)
RecordsEnd ==
    /\ pc = "records"
    /\ eof' = TRUE
    /\ pc' = "done"
    /\ result' = OkResult(header, records)
    /\ UNCHANGED <<configVars, warnings, current_line, consumed, header, records,
                   raised, mode, iterVars, fnVars, stale>>

\* next() pulls one line (parser.rs 501-511): a blank line is passed over, any
\* other line is returned parsed, a read error is returned as Err(Io); the
\* parser's own line counter is the one parse_header left
IterLine(lr) ==
    /\ pc = "iter"
    /\ Len(consumed) < MaxLines
    /\ consumed' = Append(consumed, lr)
    /\ IF lr.io
       THEN /\ yielded' = Append(yielded, Item(FALSE, DefaultRecord, IoError))
            /\ raised' = Append(raised, IoError)
            /\ UNCHANGED it_line
       ELSE /\ it_line' = NextLine(it_line)
            /\ IF lr.text = ""
               THEN UNCHANGED <<yielded, raised>>
               ELSE LET r == parse_record(SelfAt(current_line), lr.text, header)
                    IN  /\ yielded' = YieldedAfter(yielded, r)
                        /\ raised' = raised \o r.raised
    /\ UNCHANGED <<configVars, warnings, current_line, pc, header, records,
                   result, mode, eof, fnVars, stale>>

\* the line source ends: next() returns None (parser.rs 512)
IterEnd ==
    /\ pc = "iter"
    /\ eof' = TRUE
    /\ pc' = "ended"
    /\ UNCHANGED <<configVars, warnings, current_line, consumed, header, records,
                   result, raised, mode, iterVars, fnVars, stale>>

Next ==
    \/ Parse
    \/ IterNew
    \/ \E lr \in HeaderPool : HeaderLine(lr)
    \/ HeaderEnd
    \/ \E lr \in DataPool : RecordLine(lr)
    \/ RecordsEnd
    \/ \E lr \in DataPool : IterLine(lr)
    \/ IterEnd

Spec == Init /\ [][Next]_vars
-----------------------------------------------------------------------------
(* The pure functions, each applied once to an input drawn from a bounded  *)
(* set: `fn` names the function, `arg` is its input, `out` its output.     *)

RECURSIVE Strings(_, _)
\* the strings over `alphabet` of at most n characters
Strings(alphabet, n) ==
    IF n = 0 THEN {""}
    ELSE LET shorter == Strings(alphabet, n - 1)
         IN  shorter \cup {s \o c : s \in shorter, c \in alphabet}

RECURSIVE Join(_, _)
\* the pieces with `sep` between them
Join(pieces, sep) ==
    IF Len(pieces) = 0 THEN ""
    ELSE IF Len(pieces) = 1 THEN pieces[1]
    ELSE pieces[1] \o sep \o Join(Tail(pieces), sep)

MaxGtLen == 3

GtAlphabet == {"0", "1", "9", ".", "/", "|", "x", "+"}

GenotypeTokens == Strings(GtAlphabet, MaxGtLen)

MaxInfoLen == 3

InfoAlphabet == {"1", "-", ".", "e", "a", ",", "="}

\* an INFO column of one item: a bare token, or a token as the value of key K
InfoItems ==
    LET toks == Strings(InfoAlphabet, MaxInfoLen)
    IN  toks \cup {"K=" \o t : t \in toks}

DeclaredTypes == {"Integer", "String"}

\* a header that declares INFO keys K and a with Type `type`
HeaderDeclaring(type) ==
    [DefaultHeader EXCEPT !.info_fields =
        <<[id |-> "K", number |-> "1", field_type |-> type, description |-> ""],
          [id |-> "a", number |-> "1", field_type |-> type, description |-> ""]>>,
     !.samples = <<"S1", "S2">>]

InfoInputs == [item : InfoItems, declared : DeclaredTypes]

MaxColumns == 11

\* the name of column k of a '#CHROM' row
ColumnName(k) ==
    CASE k = 1 -> "#CHROM" [] k = 2 -> "POS" [] k = 3 -> "ID" [] k = 4 -> "REF"
      [] k = 5 -> "ALT" [] k = 6 -> "QUAL" [] k = 7 -> "FILTER" [] k = 8 -> "INFO"
      [] k = 9 -> "FORMAT" [] OTHER -> "S" \o ToString(k - 9)

\* '#CHROM' rows of 1..MaxColumns named columns, with or without one more,
\* empty, column after a trailing tab
HeaderRows ==
    {Join([k \in 1..n |-> ColumnName(k)], TAB) : n \in 1..MaxColumns}
        \cup {Join([k \in 1..n |-> ColumnName(k)], TAB) \o TAB : n \in 1..MaxColumns}

MaxFields == 11

PosTokens == {"100", "0", "", "x", "-1", "+5", "1.5", "007"}

QualTokens == {".", "30", "1e3", "high", "", "nan", "-"}

\* field k of a data line whose POS and QUAL columns are given
DataField(k, pos, qual) ==
    CASE k = 1 -> "1" [] k = 2 -> pos [] k = 3 -> "." [] k = 4 -> "A"
      [] k = 5 -> "G" [] k = 6 -> qual [] k = 7 -> "PASS" [] k = 8 -> "DP=5"
      [] k = 9 -> "GT" [] OTHER -> "0/1"

LineNumbers == {1, 7}

RecordInputs ==
    {[fields |-> [k \in 1..n |-> DataField(k, p, q)], line |-> l] :
        n \in 1..MaxFields, p \in PosTokens, q \in QualTokens, l \in LineNumbers}

\* the tuples over S of at most n elements
Tuples(S, n) == UNION {[1..k -> S] : k \in 0..n}

MaxAlleles == 3

AlleleValues == {None, Some(0), Some(1), Some(2)}

\* Genotype values: `alleles` and `phased` are pub fields
Genotypes == [alleles : Tuples(AlleleValues, MaxAlleles), phased : BOOLEAN]

MaxAlts == 2

AlleleTexts == {"", "A", "*", "AT", "ATG"}

\* two settings of the fields of a record other than its alleles
OtherFields(rec, other) ==
    IF other
    THEN [rec EXCEPT !.chrom = "X", !.pos = 7, !.id = Some("rs1"),
                     !.filter = [status |-> "Failed", names |-> <<"q10">>]]
    ELSE rec

VariantInputs ==
    {OtherFields([DefaultRecord EXCEPT !.reference = r, !.alternate = a], o) :
        r \in AlleleTexts, a \in Tuples(AlleleTexts, MaxAlts), o \in BOOLEAN}

MaxRecords == 3

\* records of every variant class and filter status, on three chromosomes
StatRecords ==
    {[DefaultRecord EXCEPT !.chrom = "1", !.reference = "A", !.alternate = <<"G">>,
                           !.filter = [status |-> "Pass", names |-> <<>>]],
     [DefaultRecord EXCEPT !.chrom = "2", !.reference = "A", !.alternate = <<"AT">>,
                           !.filter = [status |-> "Failed", names |-> <<"q10">>]],
     [DefaultRecord EXCEPT !.chrom = "1", !.reference = "AT", !.alternate = <<"A">>],
     [DefaultRecord EXCEPT !.chrom = "3", !.reference = "AT", !.alternate = <<"A", "ATG">>,
                           !.filter = [status |-> "Pass", names |-> <<>>]],
     [DefaultRecord EXCEPT !.chrom = "2", !.reference = "A", !.alternate = <<"*">>,
                           !.filter = [status |-> "Failed", names |-> <<"q10", "s50">>]]}

RecordSlices == Tuples(StatRecords, MaxRecords)

\* the contiguous chunks of recs that the cut positions in `cuts` leave
Chunks(recs, cuts) ==
    LET ends == cuts \cup {Len(recs)}
        Nth(k) == CHOOSE e \in ends : Cardinality({x \in ends : x < e}) = k - 1
    IN  IF recs = <<>> THEN <<>>
        ELSE [k \in 1..Cardinality(ends) |->
                SubSeq(recs, IF k = 1 THEN 1 ELSE Nth(k - 1) + 1, Nth(k))]

MaxHeaderLines == 3

\* the lines of the headers parse_header is applied to: metadata with no
\* '=', with an unknown key, with a structured value inside '<' '>' and
\* outside them, a blank line, a '#CHROM' row, a data line
MetaPool ==
    { "##", "##assembly", "##source=x", "##reference=hg38",
      "##INFO=<ID=DP>", "##INFO=ID=DP", "##contig=<ID=1", "##FILTER=q10>",
      "##FORMAT=", "", ChromRow, "1\t100" }

HeaderInputs == Tuples(MetaPool, MaxHeaderLines)

MaxInnerLen == 6

StructuredAlphabet == {"K", "=", ",", "\""}

\* values of a structured metadata line: texts within '<' and '>', and short
\* texts that lack one of the two or both
StructuredValues ==
    {"<" \o s \o ">" : s \in Strings(StructuredAlphabet, MaxInnerLen)}
        \cup Strings({"K", "<", ">"}, 2)

\* data lines under each setting of the two toggles (VcfParser::new() has
\* both on, VcfParser::fast() both off, the pub fields allow the rest)
ToggleInputs ==
    [fields : {r.fields : r \in RecordInputs}, line : {1},
     parse_info : BOOLEAN, parse_samples : BOOLEAN]

MaxFilterLen == 4

\* FILTER columns: the two markers, and texts with and without semicolons
FilterTokens ==
    Strings({"q", ";", "."}, MaxFilterLen) \cup {"PASS", "PASS;q", "pass", "q10;s50"}

MaxSampleColumns == 2

FormatTexts == {"GT", "GT:DP", "DP:GT", "DP", "DP:GQ:GT", ""}

SampleTexts == {"0/1", "0/1:25", "25:1|1", ".", "7:8:9:10", ""}

\* what follows the INFO column of a data line: nothing, a FORMAT column, or
\* a FORMAT column and sample columns
SampleColumns ==
    {<<>>} \cup {<<f>> \o s : f \in FormatTexts, s \in Tuples(SampleTexts, MaxSampleColumns)}

\* the sample names the header declares
SampleNames == {<<>>, <<"S1">>, <<"S1", "S2">>}

SampleInputs == [extra : SampleColumns, names : SampleNames]

FullSelf(line) == [parse_info |-> TRUE, parse_samples |-> TRUE, current_line |-> line]

InitFn ==
    /\ parse_info = NewConfig.parse_info
    /\ parse_samples = NewConfig.parse_samples
    /\ skip_invalid = NewConfig.skip_invalid
    /\ collect_warnings = NewConfig.collect_warnings
    /\ warnings = <<>>
    /\ current_line = 0
    /\ pc = "idle"
    /\ consumed = <<>>
    /\ eof = FALSE
    /\ header = DefaultHeader
    /\ records = <<>>
    /\ result = NoResult
    /\ raised = <<>>
    /\ stale = FALSE
    /\ mode = "none"
    /\ it_line = 0
    /\ yielded = <<>>
    /\ out = NotApplied
    /\ \/ fn = "Genotype::parse" /\ arg \in GenotypeTokens
       \/ fn = "parse_info_field" /\ arg \in InfoInputs
       \/ fn = "parse_header_line" /\ arg \in HeaderRows
       \/ fn = "parse_record" /\ arg \in RecordInputs
       \/ fn = "Genotype::is_hom_ref" /\ arg \in Genotypes
       \/ fn = "Genotype::is_het" /\ arg \in Genotypes
       \/ fn = "variant_type" /\ arg \in VariantInputs
       \/ fn = "calculate_stats" /\ arg \in RecordSlices
       \/ fn = "calculate_stats_parallel" /\ arg \in RecordSlices
       \/ fn = "parse_header" /\ arg \in HeaderInputs
       \/ fn = "parse_structured_field" /\ arg \in StructuredValues
       \/ fn = "parse_record (toggles)" /\ arg \in ToggleInputs
       \/ fn = "parse_filter" /\ arg \in FilterTokens
       \/ fn = "parse_samples" /\ arg \in SampleInputs

\* Genotype::parse(arg)
ApplyGenotypeParse ==
    /\ fn = "Genotype::parse"
    /\ ~out.applied
    /\ out' = Applied(GenotypeParse(arg))
    /\ UNCHANGED <<parserVars, fn, arg>>

\* parse_record on a line whose INFO column is arg.item, under a header that
\* declares the item's key with Type arg.declared
ApplyInfoField ==
    /\ fn = "parse_info_field"
    /\ ~out.applied
    /\ out' = Applied(parse_record(FullSelf(1),
                        Join(<<"1", "5", ".", "A", "G", ".", ".", arg.item>>, TAB),
                        HeaderDeclaring(arg.declared)))
    /\ UNCHANGED <<parserVars, fn, arg>>

\* the header loop on the '#CHROM' row arg
ApplyHeaderLine ==
    /\ fn = "parse_header_line"
    /\ ~out.applied
    /\ out' = Applied(HeaderStep(DefaultHeader, arg))
    /\ UNCHANGED <<parserVars, fn, arg>>

\* parse_record on the line made of arg.fields, at line arg.line
ApplyRecord ==
    /\ fn = "parse_record"
    /\ ~out.applied
    /\ out' = Applied(parse_record(FullSelf(arg.line), Join(arg.fields, TAB),
                                   HeaderDeclaring("Integer")))
    /\ UNCHANGED <<parserVars, fn, arg>>

\* arg.is_hom_ref()
ApplyIsHomRef ==
    /\ fn = "Genotype::is_hom_ref"
    /\ ~out.applied
    /\ out' = Applied(is_hom_ref(arg))
    /\ UNCHANGED <<parserVars, fn, arg>>

\* arg.is_het()
ApplyIsHet ==
    /\ fn = "Genotype::is_het"
    /\ ~out.applied
    /\ out' = Applied(is_het(arg))
    /\ UNCHANGED <<parserVars, fn, arg>>

\* arg.variant_type()
ApplyVariantType ==
    /\ fn = "variant_type"
    /\ ~out.applied
    /\ out' = Applied(variant_type(arg))
    /\ UNCHANGED <<parserVars, fn, arg>>

\* calculate_stats(arg)
ApplyCalculateStats ==
    /\ fn = "calculate_stats"
    /\ ~out.applied
    /\ out' = Applied(calculate_stats(arg))
    /\ UNCHANGED <<parserVars, fn, arg>>

\* `out` between the fold and the end of the reduce: the partial results
Partial(parts) == [applied |-> FALSE, parts |-> parts]

Reducing == "parts" \in DOMAIN out

\* calculate_stats_parallel: par_iter().fold splits the slice into contiguous
\* chunks, as the scheduler decides, and folds each from VcfStats::new;
\* out.parts holds the partial results in chunk order
ParFold ==
    /\ fn = "calculate_stats_parallel"
    /\ ~out.applied
    /\ ~Reducing
    /\ \E cuts \in SUBSET (1..(Len(arg) - 1)) :
            out' = Partial([k \in 1..Len(Chunks(arg, cuts)) |->
                                calculate_stats(Chunks(arg, cuts)[k])])
    /\ UNCHANGED <<parserVars, fn, arg>>

\* reduce: two neighbouring partial results are merged by the closure
ParReduce ==
    /\ fn = "calculate_stats_parallel"
    /\ Reducing
    /\ \E k \in 1..(Len(out.parts) - 1) :
            out' = Partial(SubSeq(out.parts, 1, k - 1)
                            \o <<Merge(out.parts[k], out.parts[k + 1])>>
                            \o SubSeq(out.parts, k + 2, Len(out.parts)))
    /\ UNCHANGED <<parserVars, fn, arg>>

\* reduce returns: the identity VcfStats::new merged with what is left
ParFinish ==
    /\ fn = "calculate_stats_parallel"
    /\ Reducing
    /\ Len(out.parts) <= 1
    /\ out' = Applied(IF out.parts = <<>> THEN VcfStatsNew
                      ELSE Merge(VcfStatsNew, out.parts[1]))
    /\ UNCHANGED <<parserVars, fn, arg>>

\* parse_header on the lines arg
ApplyParseHeader ==
    /\ fn = "parse_header"
    /\ ~out.applied
    /\ out' = Applied(parse_header(arg))
    /\ UNCHANGED <<parserVars, fn, arg>>

\* parse_structured_field(arg)
ApplyStructuredField ==
    /\ fn = "parse_structured_field"
    /\ ~out.applied
    /\ out' = Applied(parse_structured_field(arg))
    /\ UNCHANGED <<parserVars, fn, arg>>

\* parse_record on the line made of arg.fields, by a parser whose toggles
\* are arg.parse_info and arg.parse_samples
ApplyRecordToggles ==
    /\ fn = "parse_record (toggles)"
    /\ ~out.applied
    /\ out' = Applied(parse_record([parse_info |-> arg.parse_info,
                                      parse_samples |-> arg.parse_samples,
                                      current_line |-> arg.line],
                                     Join(arg.fields, TAB), HeaderDeclaring("Integer")))
    /\ UNCHANGED <<parserVars, fn, arg>>

\* parse_filter(arg)
ApplyFilter ==
    /\ fn = "parse_filter"
    /\ ~out.applied
    /\ out' = Applied(parse_filter(arg))
    /\ UNCHANGED <<parserVars, fn, arg>>

\* parse_record, with sample parsing on, on a line that goes on with the
\* columns arg.extra after INFO, under a header whose samples are arg.names
ApplySamples ==
    /\ fn = "parse_samples"
    /\ ~out.applied
    /\ out' = Applied(parse_record(FullSelf(1),
                        Join(<<"1", "5", ".", "A", "G", ".", ".", ".">> \o arg.extra, TAB),
                        [DefaultHeader EXCEPT !.samples = arg.names]))
    /\ UNCHANGED <<parserVars, fn, arg>>

NextFn ==
    \/ ApplyGenotypeParse
    \/ ApplyInfoField
    \/ ApplyHeaderLine
    \/ ApplyRecord
    \/ ApplyIsHomRef
    \/ ApplyIsHet
    \/ ApplyVariantType
    \/ ApplyCalculateStats
    \/ ParFold
    \/ ParReduce
    \/ ParFinish
    \/ ApplyParseHeader
    \/ ApplyStructuredField
    \/ ApplyRecordToggles
    \/ ApplyFilter
    \/ ApplySamples

SpecFn == InitFn /\ [][NextFn]_vars

-----------------------------------------------------------------------------
(* What a finished call should have produced, read off the lines the       *)
(* source handed out (`consumed`), for the claims below.                   *)

\* a line the header scan passes over: metadata or blank
IsPreamble(lr) == ~lr.io /\ (StartsWith(lr.text, "##") \/ lr.text = "")

\* index in `consumed` of the first line the header scan stops at (0: none)
RECURSIVE StopFrom(_)
StopFrom(i) ==
    IF i > Len(consumed) THEN 0
    ELSE IF ~IsPreamble(consumed[i]) THEN i
    ELSE StopFrom(i + 1)

HeaderStop == StopFrom(1)

\* the header scan stopped at a '#CHROM' row
ChromFound ==
    /\ HeaderStop # 0
    /\ ~consumed[HeaderStop].io
    /\ StartsWith(consumed[HeaderStop].text, "#CHROM")

\* number of tab-separated columns of a line: its tabs, plus one
Columns(text) == Cardinality({i \in 1..Len(text) : Ch(text, i) = TAB}) + 1

\* the positions that bound the pieces of s between occurrences of c
PieceBounds(s, c) == {0, Len(s) + 1} \cup {i \in 1..Len(s) : Ch(s, i) = c}

\* the k-th smallest of them
NthBound(s, c, k) ==
    CHOOSE p \in PieceBounds(s, c) :
        Cardinality({q \in PieceBounds(s, c) : q < p}) = k - 1

\* the k-th piece of s between occurrences of c
Piece(s, c, k) == SubSeq(s, NthBound(s, c, k) + 1, NthBound(s, c, k + 1) - 1)

PieceCount(s, c) == Cardinality(PieceBounds(s, c)) - 1

\* the text is one or more decimal digits
IsDigits(s) == Len(s) >= 1 /\ \A i \in 1..Len(s) : Ch(s, i) \in Digits

HeaderValid == ChromFound /\ Columns(consumed[HeaderStop].text) >= MinColumns

\* the indices of the lines after the '#CHROM' row
DataLines == (HeaderStop + 1)..Len(consumed)

NoIoFailure == \A i \in 1..Len(consumed) : ~consumed[i].io

\* the outcome of parsing line i as a record, by a parser whose counter is i
RecordAt(i) == parse_record(SelfAt(i), consumed[i].text, header)

NonEmptyData(i) == i \in DataLines /\ ~consumed[i].io /\ consumed[i].text # ""

RECURSIVE ParsedUpTo(_)
\* the outcome of parsing each of the first n lines that is a data line, by
\* line number (<<>> for a line that is not one)
ParsedUpTo(n) ==
    IF n = 0 THEN <<>>
    ELSE Append(ParsedUpTo(n - 1), IF NonEmptyData(n) THEN RecordAt(n) ELSE <<>>)

Parsed == ParsedUpTo(Len(consumed))

RECURSIVE KeptFrom(_, _)
\* the records of the non-empty data lines from i on that parse, in order,
\* given the outcomes p of parsing the data lines
KeptFrom(p, i) ==
    IF i > Len(consumed) THEN <<>>
    ELSE IF NonEmptyData(i) /\ p[i].ok
    THEN <<p[i].rec>> \o KeptFrom(p, i + 1)
    ELSE KeptFrom(p, i + 1)

RECURSIVE DroppedFrom(_, _)
\* the line numbers of the non-empty data lines from i on that do not parse
DroppedFrom(p, i) ==
    IF i > Len(consumed) THEN <<>>
    ELSE IF NonEmptyData(i) /\ ~p[i].ok
    THEN <<i>> \o DroppedFrom(p, i + 1)
    ELSE DroppedFrom(p, i + 1)

WarningLines == [k \in 1..Len(warnings) |-> warnings[k].line]

ParseDone == mode = "parse" /\ pc = "done"

-----------------------------------------------------------------------------
(* C1: in tolerant mode (skip_invalid and collect_warnings both set), a    *)
(* parse over a valid header and a source that never fails returns Ok with *)
(* exactly the records of the non-empty data lines that parse, in input    *)
(* order; warnings() holds one warning per dropped line, in line order,    *)
(* each with that line's 1-based physical line number and the error's      *)
(* message; records + warnings = number of non-empty data lines.           *)
C1_TolerantParse ==
    (ParseDone /\ skip_invalid /\ collect_warnings /\ HeaderValid /\ NoIoFailure)
    => LET p == Parsed
       IN  /\ result.status = "Ok"
           /\ result.records = KeptFrom(p, HeaderStop + 1)
           /\ WarningLines = DroppedFrom(p, HeaderStop + 1)
           /\ \A k \in 1..Len(warnings) :
                /\ warnings[k].message = to_string(p[warnings[k].line].err)
                /\ warnings[k].category = "Other"
           /\ Len(result.records) + Len(warnings)
                = Cardinality({i \in DataLines : NonEmptyData(i)})

\* a tolerant parse that kept a record, then dropped a line after a blank one
C1_Witness ==
    /\ ParseDone /\ skip_invalid /\ collect_warnings
    /\ result.status = "Ok"
    /\ Len(result.records) >= 1
    /\ Len(warnings) >= 1
    /\ \E i \in DataLines : consumed[i].text = "" /\ i < warnings[1].line
    /\ warnings[1].line = Len(consumed)

-----------------------------------------------------------------------------
(* C2: in strict mode (skip_invalid unset) parse returns the error of the  *)
(* first data line, in input order, whose record parse fails; it returns   *)
(* no record, not even those parsed before that line, and pulls no line    *)
(* after it.                                                               *)
C2_StrictParse ==
    LET p == Parsed
        dropped == DroppedFrom(p, HeaderStop + 1)
    IN  (ParseDone /\ ~skip_invalid /\ HeaderValid /\ dropped # <<>>)
        => LET first == Head(dropped)
           IN  /\ result = ErrResult(p[first].err)
               /\ result.records = <<>>
               /\ Len(consumed) = first

\* a strict parse that had parsed a record before the line that failed
C2_Witness ==
    /\ ParseDone /\ ~skip_invalid
    /\ result.status = "Err"
    /\ result.err.kind = "InvalidRecord"
    /\ Len(records) >= 1
    /\ result.err.line = Len(consumed)

-----------------------------------------------------------------------------
(* C3: no error is silently discarded: under every configuration, every    *)
(* error built while parsing a data line is, when the call has returned,   *)
(* either the error returned or the subject of a warning (same line, same  *)
(* message).                                                               *)
RecordErrorKinds ==
    {"InvalidRecord", "InvalidPosition", "InvalidQuality", "MissingField"}

Surfaced(e) ==
    \/ result.status = "Err" /\ result.err = e
    \/ \E k \in 1..Len(warnings) :
            warnings[k].line = e.line /\ warnings[k].message = to_string(e)

C3_NoErrorDiscarded ==
    ParseDone =>
        \A k \in 1..Len(raised) :
            raised[k].kind \in RecordErrorKinds => Surfaced(raised[k])

-----------------------------------------------------------------------------
(* C4: is_recoverable is true exactly for InvalidRecord, InvalidPosition,  *)
(* InvalidQuality and MissingField; an error of any other kind aborts      *)
(* parse and is what parse returns, also when skip_invalid is set.         *)
RecoverableKinds ==
    {"InvalidRecord", "InvalidPosition", "InvalidQuality", "MissingField"}

C4_Recoverable ==
    /\ \A k \in ErrorKinds :
            is_recoverable(VcfError(k, 1, "")) <=> k \in RecoverableKinds
    /\ mode = "parse" =>
            \A k \in 1..Len(raised) :
                raised[k].kind \notin RecoverableKinds
                    => pc = "done" /\ result = ErrResult(raised[k])

\* a tolerant parse that had skipped a line and was then aborted by a read error
C4_Witness ==
    /\ ParseDone /\ skip_invalid
    /\ Len(warnings) >= 1
    /\ result.status = "Err"
    /\ result.err.kind = "Io"
    /\ ~is_recoverable(result.err)

-----------------------------------------------------------------------------
(* C5: header parsing (in parse and in VcfIterator::new) fails with        *)
(* MissingHeader, with no record produced, exactly when the scan from the  *)
(* first line meets the end of input, or a non-empty line that does not    *)
(* start with '##', before a line starting with '#CHROM'; blank lines      *)
(* before the '#CHROM' row are passed over.                                *)
ScanOutcome ==
    IF HeaderStop = 0 THEN (IF eof THEN "eof" ELSE "open")
    ELSE IF consumed[HeaderStop].io THEN "io"
    ELSE IF StartsWith(consumed[HeaderStop].text, "#CHROM") THEN "chrom"
    ELSE "data"

HeaderParsed == pc \notin {"idle", "header"}

C5_MissingHeader ==
    HeaderParsed =>
        /\ (result.status = "Err" /\ result.err = MissingHeader)
                <=> ScanOutcome \in {"eof", "data"}
        /\ ScanOutcome \in {"eof", "data"}
                => result.records = <<>> /\ records = <<>> /\ yielded = <<>>

\* VcfIterator::new failed on a data line that came after a blank line
C5_Witness ==
    /\ mode = "iter" /\ pc = "done"
    /\ result.err = MissingHeader
    /\ ScanOutcome = "data"
    /\ \E i \in 1..(HeaderStop - 1) : consumed[i].text = ""

-----------------------------------------------------------------------------
(* C6: a '#CHROM' line that splits on tab into n columns fails the parse   *)
(* with InvalidHeader when n < 8; when n >= 8 it is accepted and the       *)
(* header's sample list is exactly columns 10..n in column order, of       *)
(* length max(n - 9, 0): empty when n is 8 or 9.                           *)
C6_HeaderColumns ==
    (fn = "parse_header_line" /\ out.applied)
    => LET n == Columns(arg)
           r == out.v
       IN  /\ n < 8 => r.next = "return" /\ r.err.kind = "InvalidHeader"
           /\ n >= 8 =>
                /\ r.next = "records"
                /\ r.header.samples =
                        [k \in 1..(IF n > 9 THEN n - 9 ELSE 0) |-> Piece(arg, TAB, 9 + k)]
                /\ Len(r.header.samples) = (IF n > 9 THEN n - 9 ELSE 0)
                /\ n \in {8, 9} => r.header.samples = <<>>

\* a '#CHROM' row of 11 columns gave the two sample names after FORMAT
C6_Witness ==
    /\ fn = "parse_header_line" /\ out.applied
    /\ Columns(arg) = 11
    /\ out.v.next = "records"
    /\ out.v.header.samples = <<"S1", "S2">>

-----------------------------------------------------------------------------
(* C7: with sample parsing on, every record returned for a file has as     *)
(* many per-sample entries as the header of that file has sample names.    *)
C7_SampleCount ==
    (ParseDone /\ parse_samples /\ result.status = "Ok")
    => \A k \in 1..Len(result.records) :
            Len(result.records[k].samples) = Len(result.header.samples)

-----------------------------------------------------------------------------
(* C8: parse_record fails in exactly two cases: the line has fewer than 8  *)
(* tab-separated fields (InvalidRecord naming the minimum of 8 and the     *)
(* count found), or its POS field is not an unsigned integer               *)
(* (InvalidPosition with the raw value); both errors are recoverable and   *)
(* carry the current line number.  A QUAL field that is neither '.' nor a  *)
(* parsable float does not fail the record: it is returned with quality    *)
(* absent.                                                                 *)
IsUnsignedInteger(s) ==
    IsDigits(IF Len(s) > 0 /\ Head(s) = "+" THEN Tail(s) ELSE s)

C8_RecordFailures ==
    (fn = "parse_record" /\ out.applied)
    => LET n       == Len(arg.fields)
           r       == out.v
           short   == n < 8
           bad_pos == n >= 8 /\ ~IsUnsignedInteger(arg.fields[2])
       IN  /\ ~r.ok <=> (short \/ bad_pos)
           /\ short =>
                r.err = VcfError("InvalidRecord", arg.line,
                                 "Expected at least 8 fields, found " \o ToString(n))
           /\ bad_pos =>
                r.err = VcfError("InvalidPosition", arg.line, arg.fields[2])
           /\ ~r.ok => is_recoverable(r.err) /\ r.err.line = arg.line
           /\ (~short /\ ~bad_pos /\ arg.fields[6] # "." /\ ~ParseF64(arg.fields[6]).some)
                => r.ok /\ ~r.rec.qual.some

\* a full line at line 7 whose QUAL is "high" came back as a record without quality
C8_Witness ==
    /\ fn = "parse_record" /\ out.applied
    /\ Len(arg.fields) >= 8
    /\ arg.fields[6] = "high"
    /\ arg.line = 7
    /\ out.v.ok
    /\ ~out.v.rec.qual.some
    /\ out.v.rec.pos = 100

-----------------------------------------------------------------------------
(* C9: with INFO parsing on, an INFO item is classified from its own text  *)
(* only, whatever Type the header declares for its key: an item without    *)
(* '=' is Flag; a value without a comma is Integer if it parses as an      *)
(* integer, else Float if it parses as a float, else String; a value with  *)
(* a comma is IntegerArray if every element parses as an integer, else     *)
(* FloatArray if every element parses as a float, else StringArray of the  *)
(* raw elements.                                                           *)
ElementsOf(value) == [k \in 1..PieceCount(value, ",") |-> Piece(value, ",", k)]

ExpectedInfoValue(value) ==
    LET es == ElementsOf(value)
    IN  IF Len(es) = 1
        THEN IF ParseI64(value).some
             THEN [InfoValue("Integer") EXCEPT !.int = ParseI64(value).v]
             ELSE IF ParseF64(value).some
             THEN [InfoValue("Float") EXCEPT !.float = ParseF64(value).v]
             ELSE [InfoValue("String") EXCEPT !.str = value]
        ELSE IF \A k \in 1..Len(es) : ParseI64(es[k]).some
        THEN [InfoValue("IntegerArray") EXCEPT
                    !.ints = [k \in 1..Len(es) |-> ParseI64(es[k]).v]]
        ELSE IF \A k \in 1..Len(es) : ParseF64(es[k]).some
        THEN [InfoValue("FloatArray") EXCEPT
                    !.floats = [k \in 1..Len(es) |-> ParseF64(es[k]).v]]
        ELSE [InfoValue("StringArray") EXCEPT !.strs = es]

-----------------------------------------------------------------------------
(* C10: Genotype::parse returns no Genotype exactly for the tokens '.',    *)
(* './.' and '.|.'; for every other token the genotype is phased iff the   *)
(* token contains '|', the token is split on '|' when phased and on '/'    *)
(* otherwise, each sub-token '.' becomes a missing allele and each         *)
(* sub-token that is a decimal integer in 0..255 becomes that allele       *)
(* index, in order.                                                        *)
GenotypeShape(s, g) ==
    LET phased == \E i \in 1..Len(s) : Ch(s, i) = "|"
        sep    == IF phased THEN "|" ELSE "/"
    IN  /\ g.some <=> s \notin {".", "./.", ".|."}
        /\ g.some =>
            /\ g.v.phased <=> phased
            /\ Len(g.v.alleles) = PieceCount(s, sep)
            /\ \A k \in 1..PieceCount(s, sep) :
                    Piece(s, sep, k) = "." => ~g.v.alleles[k].some

\* allele k of g is the index the k-th sub-token of s spells
AlleleIsIndex(s, g, k) ==
    LET sep == IF \E i \in 1..Len(s) : Ch(s, i) = "|" THEN "|" ELSE "/"
    IN  g.v.alleles[k] = Some(DecValue(Piece(s, sep, k), 0))

SubTokens(s) ==
    LET sep == IF \E i \in 1..Len(s) : Ch(s, i) = "|" THEN "|" ELSE "/"
    IN  [k \in 1..PieceCount(s, sep) |-> Piece(s, sep, k)]

-----------------------------------------------------------------------------
(* C11: for every genotype, haploid ones and ones that mix missing and     *)
(* present alleles included, is_hom_ref is true iff every present          *)
(* (non-missing) allele index is 0; a missing allele does not change the   *)
(* answer.                                                                 *)
C11_HomRef ==
    (fn = "Genotype::is_hom_ref" /\ out.applied)
    => (out.v <=> \A k \in 1..Len(arg.alleles) :
                        arg.alleles[k].some => arg.alleles[k].v = 0)

-----------------------------------------------------------------------------
(* C12: for every genotype, is_het is true iff at least two non-missing    *)
(* alleles are present and they are not all identical; a genotype with one *)
(* missing and one present allele, and any haploid genotype, is not        *)
(* heterozygous.                                                           *)
PresentPositions(g) == {k \in 1..Len(g.alleles) : g.alleles[k].some}

C12_Het ==
    (fn = "Genotype::is_het" /\ out.applied)
    => LET present == PresentPositions(arg)
       IN  /\ out.v <=> /\ Cardinality(present) >= 2
                        /\ \E i, j \in present : arg.alleles[i].v # arg.alleles[j].v
           /\ Cardinality(present) <= 1 => ~out.v
           /\ Len(arg.alleles) <= 1 => ~out.v

\* a missing allele between alleles 0 and 1: heterozygous
C12_Witness ==
    /\ fn = "Genotype::is_het" /\ out.applied
    /\ arg.alleles = <<Some(0), None, Some(1)>>
    /\ out.v

-----------------------------------------------------------------------------
(* C13: variant_type depends only on the reference and alternate allele    *)
(* strings and returns exactly one class: Snp iff the reference has length *)
(* 1 and every alternate has length 1 and is not '*' (an empty alternate   *)
(* list included); otherwise Complex iff some alternate is longer than the *)
(* reference and some alternate is shorter; otherwise Insertion iff some   *)
(* alternate is longer; otherwise Deletion iff some alternate is shorter;  *)
(* otherwise Other.  A second call on the same alleles gives the same      *)
(* class.                                                                  *)
VariantTypes == {"Snp", "Insertion", "Deletion", "Complex", "Other"}

ExpectedClass(reference, alternate) ==
    LET alts    == 1..Len(alternate)
        snp     == Len(reference) = 1
                   /\ \A k \in alts : Len(alternate[k]) = 1 /\ alternate[k] # "*"
        longer  == \E k \in alts : Len(alternate[k]) > Len(reference)
        shorter == \E k \in alts : Len(alternate[k]) < Len(reference)
    IN  CASE snp -> "Snp"
          [] ~snp /\ longer /\ shorter -> "Complex"
          [] ~snp /\ longer /\ ~shorter -> "Insertion"
          [] ~snp /\ ~longer /\ shorter -> "Deletion"
          [] OTHER -> "Other"

C13_VariantType ==
    (fn = "variant_type" /\ out.applied)
    => /\ out.v \in VariantTypes
       /\ out.v = ExpectedClass(arg.reference, arg.alternate)
       /\ \A o \in BOOLEAN :
            variant_type(OtherFields([DefaultRecord EXCEPT
                    !.reference = arg.reference, !.alternate = arg.alternate], o)) = out.v
       /\ variant_type(arg) = out.v

\* reference AT with a shorter and a longer alternate: Complex
C13_Witness ==
    /\ fn = "variant_type" /\ out.applied
    /\ arg.reference = "AT"
    /\ arg.alternate = <<"A", "ATG">>
    /\ arg.chrom = "X"
    /\ out.v = "Complex"

-----------------------------------------------------------------------------
(* C14: after folding a sequence of records with VcfStats::update          *)
(* (calculate_stats), total_records is the number of records folded; snps, *)
(* insertions, deletions and complex count the records of that variant     *)
(* class and a record of class Other counts in none, so their sum is at    *)
(* most total_records; passed_filter counts the Pass records and           *)
(* failed_filter the Failed ones, a Missing filter counts in neither, so   *)
(* passed_filter + failed_filter <= total_records.                         *)
OfClass(recs, class) ==
    Cardinality({k \in 1..Len(recs) :
                    ExpectedClass(recs[k].reference, recs[k].alternate) = class})

OfStatus(recs, status) ==
    Cardinality({k \in 1..Len(recs) : recs[k].filter.status = status})

C14_StatsCounters ==
    (fn = "calculate_stats" /\ out.applied)
    => LET st == out.v
       IN  /\ st.total_records = Len(arg)
           /\ st.snps = OfClass(arg, "Snp")
           /\ st.insertions = OfClass(arg, "Insertion")
           /\ st.deletions = OfClass(arg, "Deletion")
           /\ st.complex = OfClass(arg, "Complex")
           /\ st.snps + st.insertions + st.deletions + st.complex
                = st.total_records - OfClass(arg, "Other")
           /\ st.snps + st.insertions + st.deletions + st.complex <= st.total_records
           /\ st.passed_filter = OfStatus(arg, "Pass")
           /\ st.failed_filter = OfStatus(arg, "Failed")
           /\ st.passed_filter + st.failed_filter
                = st.total_records - OfStatus(arg, "Missing")
           /\ st.passed_filter + st.failed_filter <= st.total_records

\* three records folded: an Other with a failed filter, a Deletion with no
\* filter, a Snp that passed
C14_Witness ==
    /\ fn = "calculate_stats" /\ out.applied
    /\ Len(arg) = 3
    /\ OfClass(arg, "Other") = 1
    /\ OfStatus(arg, "Missing") = 1
    /\ out.v.total_records = 3
    /\ out.v.snps = 1 /\ out.v.deletions = 1
    /\ out.v.passed_filter = 1 /\ out.v.failed_filter = 1

-----------------------------------------------------------------------------
(* C15: after folding a sequence of records, VcfStats.chromosomes has no   *)
(* duplicate and lists exactly the distinct chromosome names of the folded *)
(* records, in order of first occurrence.                                  *)
FirstAt(recs, chrom) ==
    CHOOSE k \in 1..Len(recs) :
        recs[k].chrom = chrom /\ \A j \in 1..(k - 1) : recs[j].chrom # chrom

FirstSeenOrder(recs, chroms) ==
    /\ \A i, j \in 1..Len(chroms) : i # j => chroms[i] # chroms[j]
    /\ {chroms[i] : i \in 1..Len(chroms)} = {recs[k].chrom : k \in 1..Len(recs)}
    /\ \A i, j \in 1..Len(chroms) :
            i < j => FirstAt(recs, chroms[i]) < FirstAt(recs, chroms[j])

C15_Chromosomes ==
    (fn = "calculate_stats" /\ out.applied)
    => FirstSeenOrder(arg, out.v.chromosomes)

\* chromosomes 2, 1, 2 folded: the list is 2, 1
C15_Witness ==
    /\ fn = "calculate_stats" /\ out.applied
    /\ [k \in 1..Len(arg) |-> arg[k].chrom] = <<"2", "1", "2">>
    /\ out.v.chromosomes = <<"2", "1">>

-----------------------------------------------------------------------------
(* C16: for every record slice and every split of it into contiguous       *)
(* chunks, folding each chunk on its own and merging the partial results   *)
(* in chunk order gives the VcfStats of the sequential fold                *)
(* calculate_stats over the whole slice, chromosome order included; the    *)
(* merge is associative on the partial results and has the empty VcfStats  *)
(* as identity, so the grouping of the merges does not matter.             *)
C16_ParallelStats ==
    /\ (fn = "calculate_stats_parallel" /\ out.applied)
            => out.v = calculate_stats(arg)
    /\ (fn = "calculate_stats_parallel" /\ Reducing)
            => /\ \A k \in 1..Len(out.parts) :
                    /\ Merge(VcfStatsNew, out.parts[k]) = out.parts[k]
                    /\ Merge(out.parts[k], VcfStatsNew) = out.parts[k]
               /\ \A k \in 1..(Len(out.parts) - 2) :
                    Merge(Merge(out.parts[k], out.parts[k + 1]), out.parts[k + 2])
                        = Merge(out.parts[k], Merge(out.parts[k + 1], out.parts[k + 2]))

\* a slice on chromosomes 2, 1, 2, split and merged: the list is 2, 1
C16_Witness ==
    /\ fn = "calculate_stats_parallel" /\ out.applied
    /\ [k \in 1..Len(arg) |-> arg[k].chrom] = <<"2", "1", "2">>
    /\ out.v.total_records = 3
    /\ out.v.chromosomes = <<"2", "1">>

-----------------------------------------------------------------------------
(* C17: a VcfIterator that was constructed (header parsed) yields, on a    *)
(* source that does not fail, exactly one item per non-empty line after    *)
(* the '#CHROM' row, in input order, each the outcome of parsing that      *)
(* line; a line that fails to parse yields an error item and the lines     *)
(* after it are still yielded; empty lines yield nothing; the end of input *)
(* ends the sequence.  When every data line is valid the records yielded   *)
(* are the records batch parse returns for the same lines, in the same     *)
(* order.                                                                  *)
Iterating == mode = "iter" /\ pc \in {"iter", "ended"}

\* what an item says, apart from the line number an error carries
Outcome(item) ==
    [ok |-> item.ok, rec |-> item.rec, kind |-> item.err.kind, text |-> item.err.text]

RECURSIVE OutcomesFrom(_, _)
\* the outcomes of parsing the non-empty data lines from i on, in order
OutcomesFrom(p, i) ==
    IF i > Len(consumed) THEN <<>>
    ELSE IF NonEmptyData(i)
    THEN <<Outcome(p[i])>> \o OutcomesFrom(p, i + 1)
    ELSE OutcomesFrom(p, i + 1)

AllDataValid(p) == NoIoFailure /\ DroppedFrom(p, HeaderStop + 1) = <<>>

C17_IteratorItems ==
    LET p == Parsed
    IN  /\ (Iterating /\ NoIoFailure)
                => /\ [k \in 1..Len(yielded) |-> Outcome(yielded[k])]
                        = OutcomesFrom(p, HeaderStop + 1)
                   /\ pc = "ended" <=> eof
        /\ (Iterating /\ AllDataValid(p))
                => [k \in 1..Len(yielded) |-> yielded[k].rec]
                        = KeptFrom(p, HeaderStop + 1)
        /\ (ParseDone /\ parse_info /\ parse_samples /\ HeaderValid /\ AllDataValid(p))
                => result = OkResult(header, KeptFrom(p, HeaderStop + 1))

\* the iterator yielded an error item for a bad line, passed over an empty
\* line, yielded a record for the line after it, and ended
C17_Witness ==
    /\ mode = "iter" /\ pc = "ended"
    /\ NoIoFailure
    /\ Len(yielded) = 2
    /\ ~yielded[1].ok
    /\ yielded[2].ok
    /\ consumed[Len(consumed) - 1].text = ""

-----------------------------------------------------------------------------
(* C18: the warning buffer and the line counter are reset at the start of  *)
(* each parse call: after any sequence of parse calls on one parser,       *)
(* successful or failed, warnings() holds only the warnings of the most    *)
(* recent call, with line numbers counted from line 1 of that call's       *)
(* input, and the line counter is the number of lines that call has read.  *)
ExpectedWarnings ==
    IF skip_invalid /\ collect_warnings /\ HeaderValid
    THEN LET p == Parsed
             dropped == DroppedFrom(p, HeaderStop + 1)
         IN  [k \in 1..Len(dropped) |->
                ParseWarning(dropped[k], to_string(p[dropped[k]].err), "Other")]
    ELSE <<>>

C18_ResetPerCall ==
    (mode = "parse" /\ pc # "idle")
    => /\ current_line = Len(consumed)
       /\ warnings = ExpectedWarnings

\* a call that began with warnings of an earlier call in the buffer ended
\* with one warning, for line 2 of its own input
C18_Witness ==
    /\ ParseDone /\ stale
    /\ Len(consumed) = 2
    /\ Len(warnings) = 1
    /\ warnings[1].line = 2

-----------------------------------------------------------------------------
(* C19: a '##' line with an unrecognized key, or with no '=' at all, never *)
(* aborts header parsing and changes no header field other than            *)
(* meta_lines: whether parse_header succeeds depends only on the line the  *)
(* scan stops at, and taking the unrecognized lines out of the input       *)
(* changes nothing of the result but meta_lines.  After header parsing,    *)
(* meta_lines is exactly the '##' lines before the '#CHROM' row, verbatim  *)
(* and in input order.                                                     *)
IsMeta(line) == StartsWith(line, "##")

MetaContent(line) == SubSeq(line, 3, Len(line))

RecognizedKeys == {"fileformat", "reference", "contig", "INFO", "FORMAT", "FILTER"}

Unrecognized(line) ==
    /\ IsMeta(line)
    /\ \/ ~Contains(MetaContent(line), "=")
       \/ Piece(MetaContent(line), "=", 1) \notin RecognizedKeys

\* index of the first line that is neither metadata nor blank (0: none)
FirstStopIn(lines) ==
    IF \E k \in 1..Len(lines) : ~IsMeta(lines[k]) /\ lines[k] # ""
    THEN CHOOSE k \in 1..Len(lines) :
            /\ ~IsMeta(lines[k]) /\ lines[k] # ""
            /\ \A j \in 1..(k - 1) : IsMeta(lines[j]) \/ lines[j] = ""
    ELSE 0

Recognized(line) == ~Unrecognized(line)

WithoutMetaLines(hdr) == [hdr EXCEPT !.meta_lines = <<>>]

C19_MetaLines ==
    (fn = "parse_header" /\ out.applied)
    => LET r     == out.v
           stop  == FirstStopIn(arg)
           known == parse_header(SelectSeq(arg, Recognized))
       IN  /\ r.ok <=> /\ stop # 0
                       /\ StartsWith(arg[stop], "#CHROM")
                       /\ Columns(arg[stop]) >= MinColumns
           /\ known.ok = r.ok
           /\ known.err = r.err
           /\ WithoutMetaLines(known.header) = WithoutMetaLines(r.header)
           /\ r.ok => r.header.meta_lines = SelectSeq(SubSeq(arg, 1, stop - 1), IsMeta)

\* a header with a line without '=' and a line with an unknown key before
\* its '#CHROM' row was parsed, and kept both and nothing else
C19_Witness ==
    /\ fn = "parse_header" /\ out.applied
    /\ arg = <<"##assembly", "##source=x", ChromRow>>
    /\ out.v.ok
    /\ out.v.header.meta_lines = <<"##assembly", "##source=x">>
    /\ WithoutMetaLines(out.v.header) = DefaultHeader

-----------------------------------------------------------------------------
(* C20: a contig, INFO, FORMAT or FILTER metadata line whose value is not  *)
(* within '<' and '>' makes the parse fail with the fatal invalid-format   *)
(* error: a header that has such a line before a well-formed '#CHROM' row  *)
(* is refused with InvalidFormat.                                          *)
StructuredKeys == {"contig", "INFO", "FORMAT", "FILTER"}

Unbracketed(line) ==
    /\ IsMeta(line)
    /\ Contains(MetaContent(line), "=")
    /\ Piece(MetaContent(line), "=", 1) \in StructuredKeys
    /\ LET content == MetaContent(line)
           value   == SubSeq(content, NthBound(content, "=", 2) + 1, Len(content))
       IN  ~(StartsWith(value, "<") /\ EndsWith(value, ">"))

C20_UnbracketedFails ==
    LET stop == FirstStopIn(arg)
    IN  ( /\ fn = "parse_header" /\ out.applied
          /\ stop # 0
          /\ StartsWith(arg[stop], "#CHROM")
          /\ Columns(arg[stop]) >= MinColumns
          /\ \E k \in 1..(stop - 1) : Unbracketed(arg[k]) )
        => ~out.v.ok /\ out.v.err.kind = "InvalidFormat"

-----------------------------------------------------------------------------
(* C21: every record parse_record produces, and so every record parse      *)
(* returns or the iterator yields, has pos >= 1; a data line whose POS     *)
(* field is 0 does not produce a record.                                   *)
C21_PositionAtLeastOne ==
    (fn = "parse_record" /\ out.applied /\ out.v.ok) => out.v.rec.pos >= 1

-----------------------------------------------------------------------------
(* C22: parse_structured_field returns None for a value that is not within *)
(* '<' and '>'; otherwise it splits the inner text into KEY=VALUE pairs at *)
(* the commas outside double quotes, and only there: the keys it stores    *)
(* are the keys of those pairs, the last one included though no comma      *)
(* follows it, and a double-quoted value is stored with the commas and     *)
(* '=' it contains.                                                        *)
Enclosed(value) == StartsWith(value, "<") /\ EndsWith(value, ">")

InnerText(value) == SubSeq(value, 2, Len(value) - 1)

\* position i of s lies after an odd number of double quotes
InQuotes(s, i) == Cardinality({j \in 1..(i - 1) : Ch(s, j) = "\""}) % 2 = 1

\* the positions of s that hold c outside double quotes
OuterAt(s, c) == {i \in 1..Len(s) : Ch(s, i) = c /\ ~InQuotes(s, i)}

\* the pairs of s: for each, the positions before its first and after its
\* last character, the bounds being the commas outside quotes
PairBounds(s) ==
    LET cuts == {0, Len(s) + 1} \cup OuterAt(s, ",")
    IN  {<<lo, hi>> \in cuts \X cuts :
            lo < hi /\ \A m \in cuts : ~(lo < m /\ m < hi)}

\* the position of the first '=' outside quotes in the pair b of s, or the
\* position after the pair when it has none
FirstEq(s, b) ==
    LET eqs == {i \in OuterAt(s, "=") : b[1] < i /\ i < b[2]}
    IN  IF eqs = {} THEN b[2]
        ELSE CHOOSE i \in eqs : \A j \in eqs : i <= j

RECURSIVE Without(_, _)
\* s with every occurrence of the character c taken out
Without(s, c) ==
    IF s = "" THEN ""
    ELSE IF Head(s) = c THEN Without(Tail(s), c)
    ELSE Head(s) \o Without(Tail(s), c)

PairKey(s, b) == Without(SubSeq(s, b[1] + 1, FirstEq(s, b) - 1), "\"")

\* the source text of the value of pair b: what follows its first '='
PairValueText(s, b) == SubSeq(s, FirstEq(s, b) + 1, b[2] - 1)

\* the key of pair b is not empty and no later pair has it again
Stored(s, b) ==
    /\ PairKey(s, b) # ""
    /\ \A c \in PairBounds(s) : c[1] > b[1] => PairKey(s, c) # PairKey(s, b)

\* t is one double-quoted text
Quoted(t) ==
    /\ Len(t) >= 2
    /\ Head(t) = "\"" /\ Ch(t, Len(t)) = "\""
    /\ ~Contains(SubSeq(t, 2, Len(t) - 1), "\"")

C22_StructuredField ==
    (fn = "parse_structured_field" /\ out.applied)
    => LET s == InnerText(arg)
       IN  /\ out.v.some <=> Enclosed(arg)
           /\ out.v.some =>
                /\ DOMAIN out.v.v
                        = {PairKey(s, b) : b \in PairBounds(s)} \ {""}
                /\ \A b \in PairBounds(s) :
                        LET t == PairValueText(s, b)
                        IN  /\ (Stored(s, b) /\ Quoted(t))
                                => out.v.v[PairKey(s, b)] = SubSeq(t, 2, Len(t) - 1)
                            /\ (Stored(s, b) /\ ~Contains(t, "\"") /\ ~Contains(t, "="))
                                => out.v.v[PairKey(s, b)] = t

\* a quoted value holding a comma and an '=' was stored whole, as the last
\* pair, with no comma after it
C22_Witness ==
    /\ fn = "parse_structured_field" /\ out.applied
    /\ arg = "<K=\",=\">"
    /\ out.v.some
    /\ DOMAIN out.v.v = {"K"}
    /\ out.v.v["K"] = ",="

-----------------------------------------------------------------------------
(* C23: parse_structured_field passes the source text of each value        *)
(* through unchanged: the value stored for a pair is exactly the source    *)
(* characters between the pair's first '=' and the comma that ends the     *)
(* pair, nothing dropped or altered but the enclosing double quotes of a   *)
(* quoted value.                                                           *)
Unquoted(t) ==
    IF Len(t) >= 2 /\ Head(t) = "\"" /\ Ch(t, Len(t)) = "\""
    THEN SubSeq(t, 2, Len(t) - 1)
    ELSE t

C23_ValuePassThrough ==
    (fn = "parse_structured_field" /\ out.applied /\ out.v.some)
    => LET s == InnerText(arg)
       IN  \A b \in PairBounds(s) :
                Stored(s, b)
                    => out.v.v[PairKey(s, b)] = Unquoted(PairValueText(s, b))

-----------------------------------------------------------------------------
(* C24: with parse_info off a record has an empty INFO map and with        *)
(* parse_samples off an empty sample list, whatever the line holds; the    *)
(* toggles change nothing else: the line fails or not, and with the same   *)
(* error, as with both toggles on, the fixed fields (chrom, pos, id, ref,  *)
(* alt, qual, filter) are the same, and what a toggle that is on produces  *)
(* is the same.                                                            *)
FixedFields(rec) ==
    [chrom |-> rec.chrom, pos |-> rec.pos, id |-> rec.id,
     reference |-> rec.reference, alternate |-> rec.alternate,
     qual |-> rec.qual, filter |-> rec.filter]

\* the outcome of the same line with both toggles on
WithBothOn ==
    parse_record(FullSelf(arg.line), Join(arg.fields, TAB), HeaderDeclaring("Integer"))

C24_Toggles ==
    (fn = "parse_record (toggles)" /\ out.applied)
    => LET r    == out.v
           full == WithBothOn
       IN  /\ r.ok = full.ok
           /\ r.err = full.err
           /\ r.ok =>
                /\ FixedFields(r.rec) = FixedFields(full.rec)
                /\ r.rec.info = IF arg.parse_info THEN full.rec.info ELSE EmptyMap
                /\ r.rec.samples = IF arg.parse_samples THEN full.rec.samples ELSE <<>>

\* a line with an INFO item and two sample columns was parsed with both
\* toggles off
C24_Witness ==
    /\ fn = "parse_record (toggles)" /\ out.applied
    /\ ~arg.parse_info /\ ~arg.parse_samples
    /\ out.v.ok
    /\ out.v.rec.info = EmptyMap /\ out.v.rec.samples = <<>>
    /\ DOMAIN WithBothOn.rec.info = {"DP"}
    /\ Len(WithBothOn.rec.samples) = 2

-----------------------------------------------------------------------------
(* C25: the FILTER field maps to exactly one status: '.' gives Missing,    *)
(* 'PASS' gives Pass, any other token gives Failed with the list of its    *)
(* semicolon-separated parts in source order; the list of a Failed status  *)
(* is never empty.                                                         *)
C25_Filter ==
    (fn = "parse_filter" /\ out.applied)
    => /\ out.v.status = (CASE arg = "." -> "Missing"
                            [] arg = "PASS" -> "Pass"
                            [] OTHER -> "Failed")
       /\ out.v.status = "Failed" =>
            /\ out.v.names = [k \in 1..PieceCount(arg, ";") |-> Piece(arg, ";", k)]
            /\ Len(out.v.names) >= 1
            /\ Join(out.v.names, ";") = arg
       /\ out.v.status # "Failed" => out.v.names = <<>>

\* a token of two names gave Failed with both, in source order
C25_Witness ==
    /\ fn = "parse_filter" /\ out.applied
    /\ arg = "q10;s50"
    /\ out.v = [status |-> "Failed", names |-> <<"q10", "s50">>]

-----------------------------------------------------------------------------
(* C26: with sample parsing on, a data line of more than 9 fields gives    *)
(* one sample entry per column after FORMAT, in column order; entry i      *)
(* (0-based) has the header's i-th sample name, or "SAMPLE_i" when the     *)
(* header declares fewer; its colon-separated values are paired by         *)
(* position with the FORMAT keys, a key with no value is absent and        *)
(* excess values are ignored; the value at key GT, wherever GT stands,     *)
(* goes to the genotype decoder and never into the raw-string map.  A line *)
(* of 9 or fewer fields has no sample entries.                             *)
Min(a, b) == IF a < b THEN a ELSE b

\* the positions at which the sample text has a value for a FORMAT key
PairedPositions(format, text) ==
    1..Min(PieceCount(format, ":"), PieceCount(text, ":"))

\* the last of the positions in `among` whose FORMAT key is `key`
LastWithKey(format, among, key) ==
    CHOOSE j \in among :
        /\ Piece(format, ":", j) = key
        /\ \A m \in among : Piece(format, ":", m) = key => m <= j

ExpectedSample(format, text, name) ==
    LET paired == PairedPositions(format, text)
        keys   == {Piece(format, ":", j) : j \in paired}
    IN  [name |-> name,
         genotype |-> IF "GT" \in keys
                      THEN GenotypeParse(Piece(text, ":", LastWithKey(format, paired, "GT")))
                      ELSE NoGenotype,
         fields |-> [key \in keys \ {"GT"} |->
                        Piece(text, ":", LastWithKey(format, paired, key))]]

C26_Samples ==
    (fn = "parse_samples" /\ out.applied)
    => LET n       == Len(arg.extra)
           samples == out.v.rec.samples
       IN  /\ out.v.ok
           /\ n <= 1 => samples = <<>>
           /\ n >= 2 =>
                /\ Len(samples) = n - 1
                /\ \A k \in 1..(n - 1) :
                        samples[k] = ExpectedSample(arg.extra[1], arg.extra[k + 1],
                                        IF k <= Len(arg.names) THEN arg.names[k]
                                        ELSE "SAMPLE_" \o ToString(k - 1))

\* two sample columns under a header that names one: the second is
\* SAMPLE_1, GT in second place was decoded, and the value without a
\* partner key was left out
C26_Witness ==
    /\ fn = "parse_samples" /\ out.applied
    /\ arg.names = <<"S1">>
    /\ arg.extra = <<"DP:GT", "25:1|1", "7:8:9:10">>
    /\ Len(out.v.rec.samples) = 2
    /\ out.v.rec.samples[1].name = "S1"
    /\ out.v.rec.samples[1].genotype = Some([alleles |-> <<Some(1), Some(1)>>, phased |-> TRUE])
    /\ out.v.rec.samples[2].name = "SAMPLE_1"
    /\ DOMAIN out.v.rec.samples[2].fields = {"DP"}

-----------------------------------------------------------------------------
(* C27: every record-level error item VcfIterator yields carries the       *)
(* 1-based line number of the input line that caused it, the number batch  *)
(* parse reports for that line of the same input.                          *)
RECURSIVE ItemLinesFrom(_)
\* the line numbers of the non-empty data lines from i on, in order: the
\* lines the items of the iterator come from
ItemLinesFrom(i) ==
    IF i > Len(consumed) THEN <<>>
    ELSE IF NonEmptyData(i) THEN <<i>> \o ItemLinesFrom(i + 1)
    ELSE ItemLinesFrom(i + 1)

C27_IteratorLineNumbers ==
    (Iterating /\ NoIoFailure)
    => \A k \in 1..Len(yielded) :
            ~yielded[k].ok
                => yielded[k].err = RecordAt(ItemLinesFrom(HeaderStop + 1)[k]).err

-----------------------------------------------------------------------------
(* C28: after VcfIterator yields an I/O error item the sequence is over:   *)
(* no further item, record or error, is yielded however many more times    *)
(* next is called; an I/O error item is the last item there is.            *)
C28_EndsAfterIoError ==
    mode = "iter"
    => \A k \in 1..Len(yielded) :
            yielded[k].err.kind = "Io" => k = Len(yielded)

-----------------------------------------------------------------------------
(* C29: parsing is two-phase and never returns to the header phase: the    *)
(* header phase ends on a '#CHROM' line, and from then on no line changes  *)
(* the header (format version, definitions, sample names, raw metadata     *)
(* lines), which is the header returned; every later non-empty line that   *)
(* starts with '##' or '#CHROM' is parsed as a data record and is subject  *)
(* to the fault policy: the iterator yields an error item for it, strict   *)
(* parse returns its error, tolerant parse goes on and warns about it when *)
(* warnings are collected.                                                 *)
DataPhase == pc \in {"records", "iter", "ended"}

\* the data lines that look like header lines
HeaderLike == {i \in DataLines : ~consumed[i].io /\ StartsWith(consumed[i].text, "#")}

HeaderLikeAsData ==
    /\ (Iterating /\ NoIoFailure) =>
            LET from == ItemLinesFrom(HeaderStop + 1)
            IN  /\ Len(yielded) = Len(from)
                /\ \A k \in 1..Len(from) :
                        from[k] \in HeaderLike
                            => /\ ~yielded[k].ok
                               /\ yielded[k].err.kind \in RecordErrorKinds
    /\ (mode = "parse" /\ HeaderValid) =>
            \A i \in HeaderLike :
                IF skip_invalid
                THEN /\ pc = "done" => result.status = "Ok" \/ result.err.kind = "Io"
                     /\ collect_warnings => \E k \in 1..Len(warnings) : warnings[k].line = i
                ELSE /\ pc = "done"
                     /\ i = Len(consumed)
                     /\ result.status = "Err"
                     /\ result.err.kind \in RecordErrorKinds
                     /\ result.err.line = i
    /\ (ParseDone /\ result.status = "Ok") => result.header = header

C29_TwoPhase ==
    /\ [][ /\ DataPhase => header' = header /\ pc' # "header"
           /\ (pc = "header" /\ pc' \in {"records", "iter"})
                => StartsWith(consumed'[Len(consumed')].text, "#CHROM") ]_vars
    /\ []HeaderLikeAsData

\* a tolerant parse met a '##' line and a '#CHROM' line after the '#CHROM'
\* row, warned about both, and returned the header without them
C29_Witness ==
    /\ ParseDone /\ skip_invalid /\ collect_warnings
    /\ Len(consumed) = 3
    /\ consumed[1].text = ChromRow
    /\ consumed[2].text = "##assembly"
    /\ consumed[3].text = ChromRow
    /\ result.status = "Ok"
    /\ result.header.meta_lines = <<>>
    /\ [k \in 1..Len(warnings) |-> warnings[k].line] = <<2, 3>>

-----------------------------------------------------------------------------
(* C30: Genotype::parse never fails on a token that is not one of the      *)
(* three fully-missing markers: it returns a genotype with one allele      *)
(* entry per separator-delimited sub-token, and a sub-token that is not a  *)
(* decimal integer in 0..255 (non-numeric, empty, holding the other        *)
(* separator, or 256 or more) is a missing allele, never an error and      *)
(* never a wrapped-around index: an allele that is present is the number   *)
(* its sub-token spells.  (A decimal integer may be written with a leading *)
(* '+', as u8::from_str reads it.)                                         *)
MissingMarkers == {".", "./.", ".|."}

\* the digits of t, after the '+' it may begin with
Magnitude(t) == IF Len(t) > 0 /\ Head(t) = "+" THEN Tail(t) ELSE t

IsDecimalU8(t) == IsDigits(Magnitude(t)) /\ DecValue(Magnitude(t), 0) <= 255

C30_NeverFailsNeverWraps ==
    (fn = "Genotype::parse" /\ out.applied /\ arg \notin MissingMarkers)
    => /\ out.v.some
       /\ Len(out.v.v.alleles) = Len(SubTokens(arg))
       /\ \A k \in 1..Len(SubTokens(arg)) :
            LET t == SubTokens(arg)[k]
                a == out.v.v.alleles[k]
            IN  /\ ~IsDecimalU8(t) => ~a.some
                /\ a.some => a.v \in 0..255 /\ a.v = DecValue(Magnitude(t), 0)

\* the token "999" gave a genotype whose one allele is missing
C30_Witness ==
    /\ fn = "Genotype::parse" /\ out.applied
    /\ arg = "999"
    /\ out.v.some
    /\ out.v.v.alleles = <<None>>

====
